-------------------------- MODULE WorkerStage_proofs --------------------------
(***************************************************************************)
(* Proofs about WorkerStage: every batch is in one place, no file is       *)
(* ingested twice, and none disappears.                                    *)
(***************************************************************************)
EXTENDS WorkerStage, QueueLemmas, FiniteSetTheorems

(***************************************************************************)
(* What the variables are made of.                                         *)
(***************************************************************************)
Result(b) == [tag |-> "RESULT", batch |-> b]
Results == [tag : {"RESULT"}, batch : Nat]
Frames == Results \cup {[tag |-> "DONE"], [tag |-> "INIT_FAILED"]}
WorkerStates == {"init", "idle", "parsing", "queueing", "stopping", "exited", "dead"}
Disps(W) == [pending : Seq(Nat), assigned : [W -> Seq(Nat)], stopped : SUBSET W,
             tasks : [W -> Seq(Nat)]]

ReaderTypes ==
    /\ openConns \subseteq Workers /\ suspects \in Seq(Nat) /\ received \subseteq Nat
    /\ offering \in Results \cup {Nothing, STAGE_END}
    /\ frames \in Seq(Results \cup {STAGE_END})

WorkerTypes ==
    /\ worker \in [Workers -> WorkerStates] /\ task \in [Workers -> Nat]
    /\ outbox \in [Workers -> Seq(Nat)] /\ pipe \in [Workers -> Seq(Frames)]

FileTypes ==
    /\ batches \in Seq(Seq(Files)) /\ batches # << >>
    /\ round \in Nat \ {0}
    /\ ingested \in [Files -> Nat] /\ errored \subseteq Files
    /\ lost \in [died : SUBSET Files, noworker : SUBSET Files]

(***************************************************************************)
(* The batches a worker has and will send.                                 *)
(***************************************************************************)
Ids(fs) == {r.batch : r \in {x \in fs : x.tag = "RESULT"}}
Hand(p, o, t) == Ids(Range(p)) \cup Range(o) \cup ({t} \ {NoTask})
Living == {"init", "idle", "parsing", "queueing", "stopping"}

\* Worker w with the pipe p, the outbox o, the task t and the state s, while
\* the connections cs are open: it has no batch twice, and once it is gone
\* only what its pipe has.
Fits(p, o, t, s, w, cs) ==
    /\ IsInjective(p) /\ IsInjective(o) /\ Ids(Range(p)) \cap Range(o) = {}
    /\ NoTask \notin Ids(Range(p)) \cup Range(o) /\ t \notin Ids(Range(p)) \cup Range(o)
    /\ t = NoTask <=> s \notin {"parsing", "queueing"}
    /\ s \in Living => w \in cs /\ Range(p) \subseteq Results
    /\ s \in {"init", "exited", "dead"} => o = << >>
    /\ w \notin cs => p = << >>

HandOf(w) == Hand(pipe[w], outbox[w], task[w])
Hands == [w \in Workers |-> HandOf(w)]
Live == {w \in Workers : worker[w] \in Living}
FitsIn(w) == Fits(pipe[w], outbox[w], task[w], worker[w], w, openConns)

(***************************************************************************)
(* The dispatch state: every batch of B is in one place, `elsewhere` being *)
(* those that are neither pending nor assigned.                            *)
(***************************************************************************)
OnePlace(d, W, B, elsewhere) ==
    /\ IsInjective(d.pending) /\ Range(d.pending) \subseteq B \ elsewhere
    /\ \A w \in W : /\ IsInjective(d.assigned[w])
                    /\ Range(d.assigned[w]) \subseteq B \ elsewhere
                    /\ Range(d.assigned[w]) \cap Range(d.pending) = {}
    /\ \A v, w \in W : v # w => Range(d.assigned[v]) \cap Range(d.assigned[w]) = {}
    /\ \A b \in B \ elsewhere : b \in Range(d.pending) \/ \E w \in W : b \in Range(d.assigned[w])

\* What a worker has or is told to parse is assigned to it, and it is told
\* once.
Told(d, W, live, held) ==
    /\ \A w \in W : held[w] \subseteq Range(d.assigned[w])
    /\ \A w \in live : /\ IsInjective(d.tasks[w])
                       /\ Range(d.tasks[w]) \subseteq Range(d.assigned[w]) \cup {STOP}
                       /\ Range(d.tasks[w]) \cap held[w] = {}
                       /\ STOP \in Range(d.tasks[w]) => w \in d.stopped

Sound(d, W, B, elsewhere, live, held) ==
    d \in Disps(W) /\ OnePlace(d, W, B, elsewhere) /\ Told(d, W, live, held)

(***************************************************************************)
(* The way to the main thread.                                             *)
(***************************************************************************)
Elsewhere == Range(suspects) \cup InFlight \cup received

OnTheWay ==
    /\ IsInjective(suspects) /\ IsInjective(frames)
    /\ offering \notin Range(frames) \/ offering = STAGE_END
    /\ STAGE_END \in Range(frames) => offering = STAGE_END
    /\ Range(suspects) \cap (InFlight \cup received) = {} /\ InFlight \cap received = {}
    /\ Elsewhere \subseteq BatchIds

QueueBound == \A w \in Workers : Len(disp.assigned[w]) <= TasksAhead

(***************************************************************************)
(* The files.                                                              *)
(***************************************************************************)
OnceEach(bs) ==
    /\ \A i \in DOMAIN bs : IsInjective(bs[i])
    /\ \A i, j \in DOMAIN bs : i # j => Range(bs[i]) \cap Range(bs[j]) = {}

FilesOpen ==
    /\ OnceEach(batches)
    /\ \A b \in BatchIds \ received : \A f \in Range(batches[b]) : ingested[f] = 0 /\ f \notin FilesLost
    /\ \A b \in received : \A f \in Range(batches[b]) : ingested[f] = 1 \/ f \in errored
    /\ \A f \in FilesOf(Batches) :
          (\E b \in BatchIds : f \in Range(batches[b])) \/ ingested[f] = 1 \/ f \in errored \/ f \in FilesLost

(***************************************************************************)
(* The inductive invariant: while the stage runs; and after it.            *)
(***************************************************************************)
Running ==
    /\ ReaderTypes /\ WorkerTypes
    /\ \A w \in Workers : FitsIn(w)
    /\ Sound(disp, Workers, BatchIds, Elsewhere, Live, Hands)
    /\ OnTheWay /\ QueueBound
    /\ FilesOpen

StageInv ==
    /\ FileTypes
    /\ NoDoubleIngest /\ AccountedFor
    /\ outcome = "run" => Running

(***************************************************************************)
(* _dispatch.                                                              *)
(***************************************************************************)
\* What one dispatch does.
Effect(d, w, e) ==
    /\ w \in d.stopped => e = d
    /\ w \notin d.stopped /\ d.pending # << >> =>
          /\ e.pending = Tail(d.pending) /\ e.stopped = d.stopped
          /\ e.assigned = [d.assigned EXCEPT ![w] = Append(d.assigned[w], Head(d.pending))]
          /\ e.tasks = [d.tasks EXCEPT ![w] = Append(d.tasks[w], Head(d.pending))]
    /\ w \notin d.stopped /\ d.pending = << >> =>
          /\ e.pending = d.pending /\ e.stopped = d.stopped \cup {w}
          /\ e.assigned = d.assigned
          /\ e.tasks = [d.tasks EXCEPT ![w] = Append(d.tasks[w], STOP)]

\* The other workers keep their batches.
Others(e, d, W, w) == \A v \in W \ {w} : e.assigned[v] = d.assigned[v]

LEMMA Dispatched ==
    ASSUME NEW W, NEW d \in Disps(W), NEW w \in W, NEW e, e = Dispatch(d, w)
    PROVE  /\ e \in Disps(W)
           /\ Effect(d, w, e)
<1>1. /\ d.pending \in Seq(Nat) /\ d.assigned \in [W -> Seq(Nat)] /\ d.stopped \subseteq W
      /\ d.tasks \in [W -> Seq(Nat)] /\ STOP \in Nat
  BY DEF Disps, STOP
<1>2. CASE w \in d.stopped
  BY <1>2 DEF Dispatch, Effect
<1>3. CASE w \notin d.stopped /\ d.pending # << >>
  <2>1. PICK p, a, t : /\ p = Tail(d.pending)
                       /\ a = [d.assigned EXCEPT ![w] = Append(d.assigned[w], Head(d.pending))]
                       /\ t = [d.tasks EXCEPT ![w] = Append(d.tasks[w], Head(d.pending))]
    OBVIOUS
  <2>2. e = [d EXCEPT !.pending = p, !.assigned = a, !.tasks = t]
    BY <1>3, <2>1 DEF Dispatch
  <2>3. p \in Seq(Nat) /\ Head(d.pending) \in Nat
    BY <1>1, <1>3, <2>1
  <2>4. a \in [W -> Seq(Nat)] /\ t \in [W -> Seq(Nat)]
    BY <1>1, <2>1, <2>3
  <2>5. e.pending = p /\ e.assigned = a /\ e.tasks = t /\ e.stopped = d.stopped /\ e \in Disps(W)
    BY <2>2, <2>3, <2>4 DEF Disps
  <2>6. QED
    BY <1>3, <2>1, <2>5 DEF Effect
<1>4. CASE w \notin d.stopped /\ d.pending = << >>
  <2>1. PICK s, t : /\ s = d.stopped \cup {w}
                    /\ t = [d.tasks EXCEPT ![w] = Append(d.tasks[w], STOP)]
    OBVIOUS
  <2>2. e = [d EXCEPT !.stopped = s, !.tasks = t]
    BY <1>4, <2>1 DEF Dispatch
  <2>3. t \in [W -> Seq(Nat)] /\ s \subseteq W
    BY <1>1, <2>1
  <2>4. e.pending = d.pending /\ e.assigned = d.assigned /\ e.tasks = t /\ e.stopped = s /\ e \in Disps(W)
    BY <2>2, <2>3 DEF Disps
  <2>5. QED
    BY <1>4, <2>1, <2>4 DEF Effect
<1>5. QED
  BY <1>2, <1>3, <1>4

\* The next batch, or the stop frame, is told to one worker: every batch stays
\* in one place.
LEMMA DispatchSound ==
    ASSUME NEW W, NEW B \in SUBSET (Nat \ {0}), NEW elsewhere, NEW live \in SUBSET W, NEW held,
           NEW d, Sound(d, W, B, elsewhere, live, held), NEW w \in W, NEW e, e = Dispatch(d, w)
    PROVE  /\ Sound(e, W, B, elsewhere, live, held)
           /\ Len(e.assigned[w]) <= Len(d.assigned[w]) + 1
           /\ Others(e, d, W, w)
<1>1. d \in Disps(W) /\ OnePlace(d, W, B, elsewhere) /\ Told(d, W, live, held)
  BY DEF Sound
<1>2. /\ d.pending \in Seq(Nat) /\ d.assigned \in [W -> Seq(Nat)] /\ d.stopped \subseteq W
      /\ d.tasks \in [W -> Seq(Nat)]
  BY <1>1 DEF Disps
<1>3. /\ e \in Disps(W)
      /\ w \in d.stopped => e = d
      /\ w \notin d.stopped /\ d.pending # << >> =>
            /\ e.pending = Tail(d.pending) /\ e.stopped = d.stopped
            /\ e.assigned = [d.assigned EXCEPT ![w] = Append(d.assigned[w], Head(d.pending))]
            /\ e.tasks = [d.tasks EXCEPT ![w] = Append(d.tasks[w], Head(d.pending))]
      /\ w \notin d.stopped /\ d.pending = << >> =>
            /\ e.pending = d.pending /\ e.stopped = d.stopped \cup {w}
            /\ e.assigned = d.assigned
            /\ e.tasks = [d.tasks EXCEPT ![w] = Append(d.tasks[w], STOP)]
  <2>1. e \in Disps(W) /\ Effect(d, w, e)
    BY <1>1, Dispatched
  <2>2. QED
    BY <2>1 DEF Effect
<1>4. Len(d.assigned[w]) \in Nat
  BY <1>2
<1>5. CASE w \in d.stopped
  <2>1. e = d
    BY <1>3, <1>5
  <2>2. QED
    BY <1>4, <2>1 DEF Others
<1>6. CASE w \notin d.stopped /\ d.pending # << >>
  <2>1. PICK h, p, q, t : h = Head(d.pending) /\ p = Tail(d.pending)
                          /\ q = Append(d.assigned[w], h) /\ t = Append(d.tasks[w], h)
    OBVIOUS
  <2>2. /\ e.pending = p /\ e.stopped = d.stopped
        /\ e.assigned = [d.assigned EXCEPT ![w] = q] /\ e.tasks = [d.tasks EXCEPT ![w] = t]
    BY <1>3, <1>6, <2>1
  <2>3. /\ e.assigned[w] = q /\ e.tasks[w] = t
        /\ \A v \in W \ {w} : e.assigned[v] = d.assigned[v] /\ e.tasks[v] = d.tasks[v]
    BY <1>2, <2>2
  <2>4. IsInjective(p) /\ h \in Range(d.pending) /\ Range(p) = Range(d.pending) \ {h}
    <3>1. IsInjective(d.pending)
      BY <1>1 DEF OnePlace
    <3>2. QED
      BY <1>2, <1>6, <2>1, <3>1, Popped
  <2>5. h \in B \ elsewhere /\ h # STOP /\ h \in Nat
    BY <1>1, <2>4 DEF OnePlace, STOP
  <2>6. \A v \in W : h \notin Range(d.assigned[v])
    BY <1>1, <2>4 DEF OnePlace
  <2>7. IsInjective(q) /\ Range(q) = Range(d.assigned[w]) \cup {h} /\ Len(q) = Len(d.assigned[w]) + 1
    <3>1. d.assigned[w] \in Seq(Nat) /\ IsInjective(d.assigned[w]) /\ h \notin Range(d.assigned[w])
      BY <1>1, <1>2, <2>6 DEF OnePlace
    <3>2. IsInjective(q) /\ Range(q) = Range(d.assigned[w]) \cup {h}
      BY <2>1, <2>5, <3>1, Appended
    <3>3. Len(q) = Len(d.assigned[w]) + 1
      BY <2>1, <3>1
    <3>4. QED
      BY <3>2, <3>3
  <2>8. OnePlace(e, W, B, elsewhere)
    <3>1. IsInjective(e.pending) /\ Range(e.pending) \subseteq B \ elsewhere
      BY <1>1, <2>2, <2>4 DEF OnePlace
    <3>2. ASSUME NEW v \in W
          PROVE  /\ IsInjective(e.assigned[v]) /\ Range(e.assigned[v]) \subseteq B \ elsewhere
                 /\ Range(e.assigned[v]) \cap Range(e.pending) = {}
      <4>1. CASE v = w
        BY <1>1, <2>2, <2>3, <2>4, <2>5, <2>7, <4>1 DEF OnePlace
      <4>2. CASE v # w
        BY <1>1, <2>2, <2>3, <2>4, <4>2 DEF OnePlace
      <4>3. QED
        BY <4>1, <4>2
    <3>3. ASSUME NEW u \in W, NEW v \in W, u # v
          PROVE  Range(e.assigned[u]) \cap Range(e.assigned[v]) = {}
      BY <1>1, <2>3, <2>6, <2>7, <3>3 DEF OnePlace
    <3>4. ASSUME NEW b \in B \ elsewhere
          PROVE  b \in Range(e.pending) \/ \E v \in W : b \in Range(e.assigned[v])
      <4>1. CASE b = h
        BY <2>3, <2>7, <4>1
      <4>2. CASE b # h /\ b \in Range(d.pending)
        BY <2>2, <2>4, <4>2
      <4>3. CASE b \notin Range(d.pending)
        <5>1. PICK v \in W : b \in Range(d.assigned[v])
          BY <1>1, <4>3 DEF OnePlace
        <5>2. b \in Range(e.assigned[v])
          BY <2>3, <2>7, <5>1
        <5>3. QED
          BY <5>2
      <4>4. QED
        BY <4>1, <4>2, <4>3
    <3>5. QED
      BY <3>1, <3>2, <3>3, <3>4 DEF OnePlace
  <2>9. Told(e, W, live, held)
    <3>1. ASSUME NEW v \in W PROVE held[v] \subseteq Range(e.assigned[v])
      BY <1>1, <2>3, <2>7 DEF Told
    <3>2. ASSUME NEW v \in live
          PROVE  /\ IsInjective(e.tasks[v]) /\ Range(e.tasks[v]) \subseteq Range(e.assigned[v]) \cup {STOP}
                 /\ Range(e.tasks[v]) \cap held[v] = {}
                 /\ STOP \in Range(e.tasks[v]) => v \in e.stopped
      <4>1. CASE v = w
        <5>1. /\ IsInjective(d.tasks[w]) /\ Range(d.tasks[w]) \subseteq Range(d.assigned[w]) \cup {STOP}
              /\ Range(d.tasks[w]) \cap held[w] = {} /\ (STOP \in Range(d.tasks[w]) => w \in d.stopped)
              /\ held[w] \subseteq Range(d.assigned[w]) /\ d.tasks[w] \in Seq(Nat)
          BY <1>1, <1>2, <4>1 DEF Told
        <5>2. h \notin Range(d.tasks[w]) /\ h \notin held[w]
          BY <2>5, <2>6, <5>1
        <5>3. IsInjective(t) /\ Range(t) = Range(d.tasks[w]) \cup {h}
          BY <2>1, <2>5, <5>1, <5>2, Appended
        <5>4. QED
          BY <2>2, <2>3, <2>5, <2>7, <4>1, <5>1, <5>2, <5>3
      <4>2. CASE v # w
        BY <1>1, <2>2, <2>3, <4>2 DEF Told
      <4>3. QED
        BY <4>1, <4>2
    <3>3. QED
      BY <3>1, <3>2 DEF Told
  <2>10. QED
    BY <1>3, <1>4, <2>3, <2>7, <2>8, <2>9 DEF Sound, Others
<1>7. CASE w \notin d.stopped /\ d.pending = << >>
  <2>1. PICK t : t = Append(d.tasks[w], STOP)
    OBVIOUS
  <2>2. /\ e.pending = d.pending /\ e.stopped = d.stopped \cup {w}
        /\ e.assigned = d.assigned /\ e.tasks = [d.tasks EXCEPT ![w] = t]
    BY <1>3, <1>7, <2>1
  <2>3. e.tasks[w] = t /\ \A v \in W \ {w} : e.tasks[v] = d.tasks[v]
    BY <1>2, <2>2
  <2>4. OnePlace(e, W, B, elsewhere)
    BY <1>1, <2>2 DEF OnePlace
  <2>5. Told(e, W, live, held)
    <3>1. ASSUME NEW v \in live
          PROVE  /\ IsInjective(e.tasks[v]) /\ Range(e.tasks[v]) \subseteq Range(e.assigned[v]) \cup {STOP}
                 /\ Range(e.tasks[v]) \cap held[v] = {}
                 /\ STOP \in Range(e.tasks[v]) => v \in e.stopped
      <4>1. CASE v = w
        <5>1. /\ IsInjective(d.tasks[w]) /\ Range(d.tasks[w]) \subseteq Range(d.assigned[w]) \cup {STOP}
              /\ Range(d.tasks[w]) \cap held[w] = {} /\ STOP \notin Range(d.tasks[w])
              /\ held[w] \subseteq Range(d.assigned[w]) /\ d.tasks[w] \in Seq(Nat)
          BY <1>1, <1>2, <1>7, <4>1 DEF Told
        <5>2. STOP \notin held[w] /\ STOP \in Nat
          BY <1>1, <5>1 DEF OnePlace, STOP
        <5>3. IsInjective(t) /\ Range(t) = Range(d.tasks[w]) \cup {STOP}
          BY <2>1, <5>1, <5>2, Appended
        <5>4. QED
          BY <2>2, <2>3, <4>1, <5>1, <5>2, <5>3
      <4>2. CASE v # w
        BY <1>1, <2>2, <2>3, <4>2 DEF Told
      <4>3. QED
        BY <4>1, <4>2
    <3>2. \A v \in W : held[v] \subseteq Range(e.assigned[v])
      BY <1>1, <2>2 DEF Told
    <3>3. QED
      BY <3>1, <3>2 DEF Told
  <2>6. QED
    BY <1>3, <1>4, <2>2, <2>4, <2>5 DEF Sound, Others
<1>8. QED
  BY <1>5, <1>6, <1>7

\* Those who are asked have at most one batch more, the others no more.
OneMore(e, d, W, ws) ==
    \A v \in W : Len(e.assigned[v]) <= Len(d.assigned[v]) + (IF v \in Range(ws) THEN 1 ELSE 0)

\* The same for several workers, one after the other.
LEMMA DispatchAllSound ==
    ASSUME NEW W, NEW B \in SUBSET (Nat \ {0}), NEW elsewhere, NEW live \in SUBSET W, NEW held,
           NEW d, Sound(d, W, B, elsewhere, live, held), NEW ws \in Seq(W), IsInjective(ws)
    PROVE  /\ Sound(DispatchAll(d, ws), W, B, elsewhere, live, held)
           /\ OneMore(DispatchAll(d, ws), d, W, ws)
<1> DEFINE N == Len(ws)
           after[n \in 0..N] == IF n = 0 THEN d ELSE Dispatch(after[n - 1], ws[n])
           F == [p \in (1..N) \X Disps(W) |-> Dispatch(p[2], ws[p[1]])]
<1>1. N \in Nat /\ DOMAIN ws = 1..N /\ \A i \in 1..N : ws[i] \in W
  OBVIOUS
<1>2. d \in Disps(W)
  BY DEF Sound
<1>3. \E g \in [0..N -> Disps(W)] : Iterates(g, d, N, F)
  <2>1. F \in [(1..N) \X Disps(W) -> Disps(W)]
    <3>1. \A p \in (1..N) \X Disps(W) : Dispatch(p[2], ws[p[1]]) \in Disps(W)
      <4> TAKE p \in (1..N) \X Disps(W)
      <4>1. p[2] \in Disps(W) /\ ws[p[1]] \in W
        BY <1>1
      <4>2. QED
        BY <4>1, Dispatched
    <3> HIDE DEF N
    <3>2. QED
      BY <3>1
  <2> HIDE DEF F, N
  <2>2. QED
    BY <1>1, <1>2, <2>1, Iterated
<1>4. PICK g \in [0..N -> Disps(W)] : g[0] = d /\ \A n \in 1..N : g[n] = F[<<n, g[n - 1]>>]
  <2> HIDE DEF F
  <2>1. QED
    BY <1>3 DEF Iterates
<1>5. g = [n \in 0..N |-> IF n = 0 THEN d ELSE Dispatch(g[n - 1], ws[n])]
  <2>1. ASSUME NEW n \in 0..N PROVE g[n] = IF n = 0 THEN d ELSE Dispatch(g[n - 1], ws[n])
    <3>1. CASE n = 0
      BY <1>4, <3>1
    <3>2. CASE n # 0
      <4>1. n \in 1..N /\ n - 1 \in 0..N /\ g[n - 1] \in Disps(W)
        <5> HIDE DEF N, F
        <5>1. n \in 1..N /\ n - 1 \in 0..N
          BY <1>1, <3>2
        <5>2. QED
          BY <5>1
      <4>2. g[n] = F[<<n, g[n - 1]>>]
        BY <1>4, <4>1
      <4>3. F[<<n, g[n - 1]>>] = Dispatch(g[n - 1], ws[n])
        BY <4>1
      <4>4. QED
        BY <3>2, <4>2, <4>3
    <3>3. QED
      BY <3>1, <3>2
  <2> HIDE DEF F
  <2>2. QED
    BY <1>4, <2>1
<1>6. after = [n \in 0..N |-> IF n = 0 THEN d ELSE Dispatch(after[n - 1], ws[n])]
  BY <1>5
<1>7. DispatchAll(d, ws) = after[N]
  BY DEF DispatchAll
<1> HIDE DEF after
<1>8. \A n \in 0..N : after[n] = IF n = 0 THEN d ELSE Dispatch(after[n - 1], ws[n])
  <2> HIDE DEF N
  <2>1. QED
    BY <1>6
<1> DEFINE Extra(v, n) == IF v \in {ws[i] : i \in 1..n} THEN 1 ELSE 0
           Fine(n) == /\ Sound(after[n], W, B, elsewhere, live, held)
                      /\ \A v \in W : Len(after[n].assigned[v]) <= Len(d.assigned[v]) + Extra(v, n)
           T == {n \in 0..N : Fine(n)}
<1>9. \A v \in W : Len(d.assigned[v]) \in Nat
  BY <1>2 DEF Disps
<1>10. 0 \in T
  <2>1. after[0] = d /\ 0 \in 0..N
    BY <1>1, <1>8
  <2>2. \A v \in W : Len(d.assigned[v]) <= Len(d.assigned[v]) + Extra(v, 0)
    BY <1>9
  <2>3. Fine(0)
    BY <2>1, <2>2
  <2> HIDE DEF Fine
  <2>4. QED
    BY <2>1, <2>3
<1>11. ASSUME NEW n \in 0..N, n < N, n \in T PROVE n + 1 \in T
  <2>1. PICK m : m = n + 1
    OBVIOUS
  <2>2. m \in 1..N /\ m \in 0..N /\ m # 0 /\ m - 1 = n /\ n \in Nat
    BY <1>1, <1>11, <2>1
  <2>3. after[m] = Dispatch(after[n], ws[m])
    BY <1>8, <2>2, Zenon
  <2>4. PICK a, e, w : a = after[n] /\ e = after[m] /\ w = ws[m]
    OBVIOUS
  <2>5. Fine(n)
    BY <1>11
  <2>6. w \in W /\ e = Dispatch(a, w) /\ Sound(a, W, B, elsewhere, live, held)
    BY <1>1, <2>2, <2>3, <2>4, <2>5
  <2>7. /\ Sound(e, W, B, elsewhere, live, held)
        /\ Len(e.assigned[w]) <= Len(a.assigned[w]) + 1
        /\ \A v \in W \ {w} : e.assigned[v] = a.assigned[v]
    BY <2>6, DispatchSound DEF Others
  <2>8. {ws[i] : i \in 1..m} = {ws[i] : i \in 1..n} \cup {w}
    <3>1. PICK I, J : I = 1..m /\ J = 1..n
      OBVIOUS
    <3>2. I = J \cup {m}
      BY <2>1, <2>2, <3>1
    <3>3. {ws[i] : i \in I} = {ws[i] : i \in J} \cup {ws[m]}
      BY <3>2
    <3>4. QED
      BY <2>4, <3>1, <3>3
  <2>9. w \notin {ws[i] : i \in 1..n}
    <3>1. \A i \in 1..n : i \in DOMAIN ws /\ m \in DOMAIN ws /\ i # m
      BY <1>1, <2>1, <2>2
    <3>2. \A i \in 1..n : ws[i] # ws[m]
      BY <3>1 DEF IsInjective
    <3>3. QED
      BY <2>4, <3>2
  <2>10. ASSUME NEW v \in W PROVE Len(e.assigned[v]) <= Len(d.assigned[v]) + Extra(v, m)
    <3>1. Len(a.assigned[v]) <= Len(d.assigned[v]) + Extra(v, n)
      BY <2>4, <2>5
    <3>2. Len(a.assigned[v]) \in Nat /\ Len(e.assigned[v]) \in Nat /\ Len(d.assigned[v]) \in Nat
      <4>1. a \in Disps(W) /\ e \in Disps(W)
        BY <2>6, <2>7 DEF Sound
      <4>2. a.assigned[v] \in Seq(Nat) /\ e.assigned[v] \in Seq(Nat)
        BY <4>1 DEF Disps
      <4>3. QED
        BY <1>9, <4>2
    <3>3. CASE v = w
      <4>1. Extra(v, n) = 0 /\ Extra(v, m) = 1
        <5>1. v \notin {ws[i] : i \in 1..n}
          BY <2>9, <3>3
        <5>2. v \in {ws[i] : i \in 1..m}
          BY <2>8, <3>3
        <5>3. QED
          BY <5>1, <5>2
      <4> HIDE DEF Extra
      <4>2. Len(e.assigned[v]) <= Len(a.assigned[v]) + 1
        BY <2>7, <3>3
      <4>3. Len(a.assigned[v]) <= Len(d.assigned[v])
        BY <3>1, <3>2, <4>1
      <4>4. Len(e.assigned[v]) <= Len(d.assigned[v]) + 1
        <5>1. \A x, y, z \in Nat : x <= y + 1 /\ y <= z => x <= z + 1
          OBVIOUS
        <5>2. QED
          BY <3>2, <4>2, <4>3, <5>1, Zenon
      <4>5. QED
        BY <4>1, <4>4
    <3>4. CASE v # w
      <4>1. Extra(v, n) = Extra(v, m)
        BY <2>8, <3>4
      <4> HIDE DEF Extra
      <4>2. QED
        BY <2>7, <3>1, <3>2, <3>4, <4>1
    <3>5. QED
      BY <3>3, <3>4
  <2>11. Fine(m)
    BY <2>4, <2>7, <2>10
  <2> HIDE DEF Fine
  <2>12. QED
    BY <2>1, <2>2, <2>11
<1>12. N \in T
  <2>1. T \in SUBSET (0..N)
    OBVIOUS
  <2> HIDE DEF T, N
  <2>2. T = 0..N
    BY <1>1, <1>10, <1>11, <2>1, Climb
  <2>3. QED
    BY <1>1, <2>2
<1>13. {ws[i] : i \in 1..N} = Range(ws)
  BY <1>1 DEF Range
<1>14. Fine(N)
  BY <1>12
<1> HIDE DEF N
<1>15. QED
  BY <1>7, <1>13, <1>14 DEF OneMore

\* The numbers up to n, and those of a set of workers in order.
LEMMA Numbers ==
    ASSUME NEW n \in Nat
    PROVE  UpTo(n) \in Seq(Nat) /\ IsInjective(UpTo(n)) /\ Range(UpTo(n)) = 1..n /\ Len(UpTo(n)) = n
<1> DEFINE s == UpTo(n)
<1>1. DOMAIN s = 1..n /\ \A i \in 1..n : s[i] = i
  BY DEF UpTo
<1>2. s \in Seq(Nat) /\ Len(s) = n
  <2>1. s \in [1..n -> Nat]
    BY DEF UpTo
  <2> HIDE DEF s
  <2>2. QED
    BY <1>1, <2>1
<1> HIDE DEF s
<1>3. IsInjective(s) /\ Range(s) = 1..n
  BY <1>1 DEF IsInjective, Range
<1>4. QED
  BY <1>2, <1>3 DEF s

LEMMA Ordered ==
    ASSUME NEW ws \in SUBSET (1..NumWorkers)
    PROVE  InOrder(ws) \in Seq(ws) /\ IsInjective(InOrder(ws)) /\ Range(InOrder(ws)) = ws
<1>1. NumWorkers \in Nat
  BY StageAssumptions
<1>2. PICK u, s : u = UpTo(NumWorkers) /\ s = Those(u, ws)
  OBVIOUS
<1>3. u \in Seq(Nat) /\ IsInjective(u) /\ Range(u) = 1..NumWorkers
  BY <1>1, <1>2, Numbers
<1>4. s \in Seq(Nat) /\ Range(s) = Range(u) \cap ws /\ IsInjective(s)
  BY <1>2, <1>3, ThoseOf
<1>5. Range(s) = ws
  BY <1>3, <1>4
<1>6. s \in Seq(ws)
  BY <1>4, <1>5, SeqOfRange
<1>7. QED
  BY <1>2, <1>4, <1>5, <1>6 DEF InOrder

LEMMA ProcsOf ==
    ASSUME NEW bs \in Seq(Seq(Files)), bs # << >>
    PROVE  /\ Procs(bs) \subseteq 1..NumWorkers /\ Procs(bs) # {}
           /\ Len(bs) \in Nat \ {0} /\ 1..Len(bs) \in SUBSET (Nat \ {0})
<1>1. NumWorkers \in Nat \ {0} /\ Len(bs) \in Nat \ {0}
  BY StageAssumptions
<1>2. PICK n, m : n = Len(bs) /\ m = Most(1, Least(NumWorkers, n))
  OBVIOUS
<1>3. m \in Nat /\ 1 <= m /\ m <= NumWorkers
  BY <1>1, <1>2 DEF Most, Least
<1>4. Procs(bs) = 1..m /\ 1 \in 1..m
  BY <1>2, <1>3 DEF Procs
<1>5. 1..m \subseteq 1..NumWorkers
  BY <1>1, <1>3
<1>6. 1..n \in SUBSET (Nat \ {0})
  BY <1>1, <1>2
<1>7. QED
  BY <1>1, <1>2, <1>4, <1>5, <1>6

\* The start of a round: every batch is pending or told to a worker.
Bounded(d, W) == \A w \in W : Len(d.assigned[w]) <= TasksAhead

LEMMA DealtSound ==
    ASSUME NEW bs \in Seq(Seq(Files)), bs # << >>, NEW held, \A w \in Procs(bs) : held[w] = {}
    PROVE  /\ Sound(Dealt(bs), Procs(bs), 1..Len(bs), {}, Procs(bs), held)
           /\ Bounded(Dealt(bs), Procs(bs))
<1>1. PICK W, B, o, u : W = Procs(bs) /\ B = 1..Len(bs) /\ o = InOrder(W) /\ u = Undealt(bs)
  OBVIOUS
<1>2. /\ W \subseteq 1..NumWorkers /\ W \in SUBSET W /\ Len(bs) \in Nat /\ B \in SUBSET (Nat \ {0})
      /\ TasksAhead \in Nat /\ \A w \in W : held[w] = {}
  BY <1>1, ProcsOf, StageAssumptions
<1>3. o \in Seq(W) /\ IsInjective(o) /\ Range(o) = W
  BY <1>1, <1>2, Ordered
<1>4. Sound(u, W, B, {}, W, held) /\ \A w \in W : Len(u.assigned[w]) = 0
  <2>1. PICK p, a : p = UpTo(Len(bs)) /\ a = [w \in W |-> << >>]
    OBVIOUS
  <2>2. u = [pending |-> p, assigned |-> a, stopped |-> {}, tasks |-> a]
    BY <1>1, <2>1 DEF Undealt
  <2>3. p \in Seq(Nat) /\ IsInjective(p) /\ Range(p) = B
    BY <1>1, <1>2, <2>1, Numbers
  <2>4. a \in [W -> Seq(Nat)] /\ \A w \in W : a[w] = << >>
    BY <2>1
  <2>5. Range(<< >>) = {} /\ IsInjective(<< >>) /\ Len(<< >>) = 0
    BY DEF Range, IsInjective
  <2>6. u.pending = p /\ u.assigned = a /\ u.tasks = a /\ u.stopped = {}
    BY <2>2
  <2>7. u \in Disps(W)
    BY <2>2, <2>3, <2>4 DEF Disps
  <2>8. OnePlace(u, W, B, {})
    BY <2>3, <2>4, <2>5, <2>6 DEF OnePlace
  <2>9. Told(u, W, W, held)
    BY <1>2, <2>4, <2>5, <2>6 DEF Told
  <2>10. QED
    BY <2>4, <2>5, <2>6, <2>7, <2>8, <2>9 DEF Sound
<1> DEFINE D == {d \in Disps(W) : Sound(d, W, B, {}, W, held)}
           N == TasksAhead
           pass[n \in 0..N] == IF n = 0 THEN u ELSE DispatchAll(pass[n - 1], o)
           F == [p \in (1..N) \X D |-> DispatchAll(p[2], o)]
<1>5. ASSUME NEW d \in D
      PROVE  /\ DispatchAll(d, o) \in D
             /\ \A w \in W : Len(DispatchAll(d, o).assigned[w]) <= Len(d.assigned[w]) + 1
  <2>1. Sound(d, W, B, {}, W, held)
    OBVIOUS
  <2>2. /\ Sound(DispatchAll(d, o), W, B, {}, W, held)
        /\ \A v \in W : Len(DispatchAll(d, o).assigned[v]) <=
                          Len(d.assigned[v]) + (IF v \in Range(o) THEN 1 ELSE 0)
    BY <1>2, <1>3, <2>1, DispatchAllSound DEF OneMore
  <2>3. DispatchAll(d, o) \in Disps(W)
    BY <2>2 DEF Sound
  <2>4. QED
    BY <1>3, <2>2, <2>3
<1>6. u \in D
  BY <1>4 DEF Sound
<1> HIDE DEF D
<1>7. \E g \in [0..N -> D] : Iterates(g, u, N, F)
  <2>1. F \in [(1..N) \X D -> D]
    BY <1>5
  <2> HIDE DEF F, N
  <2>2. QED
    BY <1>2, <1>6, <2>1, Iterated DEF N
<1>8. PICK g \in [0..N -> D] : g[0] = u /\ \A n \in 1..N : g[n] = F[<<n, g[n - 1]>>]
  <2> HIDE DEF F
  <2>1. QED
    BY <1>7 DEF Iterates
<1>9. \A n \in 1..N : g[n - 1] \in D /\ g[n] = DispatchAll(g[n - 1], o)
  <2> TAKE n \in 1..N
  <2>1. n - 1 \in 0..N
    BY <1>2
  <2>2. g[n - 1] \in D
    BY <2>1
  <2>3. F[<<n, g[n - 1]>>] = DispatchAll(g[n - 1], o)
    BY <2>2
  <2>4. QED
    BY <1>8, <2>2, <2>3
<1>10. g = [n \in 0..N |-> IF n = 0 THEN u ELSE DispatchAll(g[n - 1], o)]
  <2>1. ASSUME NEW n \in 0..N PROVE g[n] = IF n = 0 THEN u ELSE DispatchAll(g[n - 1], o)
    <3>1. n # 0 => n \in 1..N
      BY <1>2
    <3>2. QED
      BY <1>8, <1>9, <3>1
  <2>2. QED
    BY <1>8, <2>1
<1>11. pass = [n \in 0..N |-> IF n = 0 THEN u ELSE DispatchAll(pass[n - 1], o)]
  BY <1>10
<1>12. Dealt(bs) = pass[N]
  BY <1>1 DEF Dealt
<1> HIDE DEF pass
<1>13. \A n \in 0..N : pass[n] = IF n = 0 THEN u ELSE DispatchAll(pass[n - 1], o)
  <2> HIDE DEF N
  <2>1. QED
    BY <1>11
<1> DEFINE Fine(n) == pass[n] \in D /\ \A w \in W : Len(pass[n].assigned[w]) <= n
           T == {n \in 0..N : Fine(n)}
<1>14. 0 \in T
  <2>1. pass[0] = u /\ 0 \in 0..N
    BY <1>2, <1>13
  <2>2. Fine(0)
    BY <1>4, <1>6, <2>1
  <2> HIDE DEF Fine
  <2>3. QED
    BY <2>1, <2>2
<1>15. ASSUME NEW n \in 0..N, n < N, n \in T PROVE n + 1 \in T
  <2>1. PICK m : m = n + 1
    OBVIOUS
  <2>2. m \in 0..N /\ m # 0 /\ m - 1 = n /\ n \in Nat
    BY <1>2, <1>15, <2>1
  <2>3. pass[m] = DispatchAll(pass[n], o)
    BY <1>13, <2>2, Zenon
  <2>4. PICK d, e : d = pass[n] /\ e = pass[m]
    OBVIOUS
  <2>5. d \in D /\ \A w \in W : Len(d.assigned[w]) <= n
    BY <1>15, <2>4
  <2>6. e \in D /\ \A w \in W : Len(e.assigned[w]) <= Len(d.assigned[w]) + 1
    BY <1>5, <2>3, <2>4, <2>5
  <2>7. \A w \in W : Len(d.assigned[w]) \in Nat /\ Len(e.assigned[w]) \in Nat
    BY <2>5, <2>6 DEF D, Disps
  <2>8. \A w \in W : Len(e.assigned[w]) <= m
    <3> TAKE w \in W
    <3>1. PICK x, y : x = Len(d.assigned[w]) /\ y = Len(e.assigned[w])
      OBVIOUS
    <3>2. x \in Nat /\ y \in Nat /\ x <= n /\ y <= x + 1
      BY <2>5, <2>6, <2>7, <3>1
    <3>3. QED
      BY <2>1, <2>2, <3>1, <3>2
  <2>9. Fine(m)
    BY <2>4, <2>6, <2>8
  <2> HIDE DEF Fine
  <2>10. QED
    BY <2>1, <2>2, <2>9
<1>16. N \in T
  <2>1. T \in SUBSET (0..N)
    OBVIOUS
  <2> HIDE DEF T
  <2>2. T = 0..N
    BY <1>2, <1>14, <1>15, <2>1, Climb
  <2>3. QED
    BY <1>2, <2>2
<1>17. Fine(N)
  BY <1>16
<1>18. QED
  BY <1>1, <1>12, <1>17 DEF D, Bounded

(***************************************************************************)
(* What one worker has, before and after each thing that happens to it.    *)
(***************************************************************************)
DoneFrame == [tag |-> "DONE"]
FailedFrame == [tag |-> "INIT_FAILED"]

LEMMA FrameIds ==
    /\ \A b \in Nat : Result(b) \in Results /\ Result(b).batch = b /\ Result(b).tag = "RESULT"
    /\ \A r \in Results : r.batch \in Nat /\ r = Result(r.batch) /\ r.tag = "RESULT"
    /\ DoneFrame \notin Results /\ FailedFrame \notin Results /\ DoneFrame # FailedFrame
    /\ Nothing \notin Results /\ STAGE_END \notin Results /\ Nothing # STAGE_END
    /\ DoneFrame.tag # "RESULT" /\ FailedFrame.tag # "RESULT"
    /\ Nothing.tag # "RESULT" /\ STAGE_END.tag # "RESULT"
    /\ Frames = Results \cup {DoneFrame, FailedFrame}
<1>1. \A b \in Nat : Result(b) \in Results /\ Result(b).batch = b /\ Result(b).tag = "RESULT"
  BY DEF Result, Results
<1>2. \A r \in Results : r.batch \in Nat /\ r = Result(r.batch) /\ r.tag = "RESULT"
  BY DEF Result, Results
<1>3. /\ DoneFrame.tag = "DONE" /\ FailedFrame.tag = "INIT_FAILED"
      /\ Nothing.tag = "none" /\ STAGE_END.tag = "END"
  BY DEF DoneFrame, FailedFrame, Nothing, STAGE_END
<1>4. "DONE" # "RESULT" /\ "INIT_FAILED" # "RESULT" /\ "none" # "RESULT" /\ "END" # "RESULT"
      /\ "DONE" # "INIT_FAILED" /\ "none" # "END"
  OBVIOUS
<1>5. Frames = Results \cup {DoneFrame, FailedFrame}
  BY DEF Frames, DoneFrame, FailedFrame
<1>6. QED
  BY <1>1, <1>2, <1>3, <1>4, <1>5

\* The batches of a set of frames, with one frame more or less.
LEMMA IdsOf ==
    ASSUME NEW fs \in SUBSET (Results \cup {DoneFrame, FailedFrame, Nothing, STAGE_END})
    PROVE  /\ Ids(fs) \subseteq Nat
           /\ \A b \in Nat : b \in Ids(fs) <=> Result(b) \in fs
           /\ \A b \in Nat : Ids(fs \cup {Result(b)}) = Ids(fs) \cup {b} /\ Ids(fs \ {Result(b)}) = Ids(fs) \ {b}
           /\ \A x \in {DoneFrame, FailedFrame, Nothing, STAGE_END} :
                 Ids(fs \cup {x}) = Ids(fs) /\ Ids(fs \ {x}) = Ids(fs)
<1>1. ASSUME NEW gs \in SUBSET (Results \cup {DoneFrame, FailedFrame, Nothing, STAGE_END})
      PROVE  Ids(gs) \subseteq Nat /\ \A b \in Nat : b \in Ids(gs) <=> Result(b) \in gs
  <2>1. \A x \in gs : x.tag = "RESULT" => x \in Results
    BY FrameIds
  <2>2. Ids(gs) \subseteq Nat
    BY <2>1, FrameIds DEF Ids
  <2>3. ASSUME NEW b \in Nat, b \in Ids(gs) PROVE Result(b) \in gs
    <3>1. PICK r \in gs : r.tag = "RESULT" /\ r.batch = b
      BY <2>3 DEF Ids
    <3>2. r = Result(b)
      BY <2>1, <3>1, FrameIds
    <3>3. QED
      BY <3>2
  <2>4. ASSUME NEW b \in Nat, Result(b) \in gs PROVE b \in Ids(gs)
    BY <2>4, FrameIds DEF Ids
  <2>5. QED
    BY <2>2, <2>3, <2>4
<1>2. ASSUME NEW b \in Nat
      PROVE  Ids(fs \cup {Result(b)}) = Ids(fs) \cup {b} /\ Ids(fs \ {Result(b)}) = Ids(fs) \ {b}
  <2>1. PICK r, g, h : r = Result(b) /\ g = fs \cup {r} /\ h = fs \ {r}
    OBVIOUS
  <2>2. /\ g \in SUBSET (Results \cup {DoneFrame, FailedFrame, Nothing, STAGE_END})
        /\ h \in SUBSET (Results \cup {DoneFrame, FailedFrame, Nothing, STAGE_END})
    BY <2>1, FrameIds
  <2>3. \A c \in Nat : Result(c) = r => c = b
    BY <2>1, FrameIds
  <2>4. Ids(g) \subseteq Nat /\ Ids(h) \subseteq Nat /\ Ids(fs) \subseteq Nat
    BY <1>1, <2>2
  <2>5. \A c \in Nat : /\ c \in Ids(g) <=> Result(c) \in g
                       /\ c \in Ids(h) <=> Result(c) \in h
                       /\ c \in Ids(fs) <=> Result(c) \in fs
    BY <1>1, <2>2
  <2>6. \A c \in Nat : /\ c \in Ids(g) <=> c \in Ids(fs) \/ c = b
                       /\ c \in Ids(h) <=> c \in Ids(fs) /\ c # b
    BY <2>1, <2>3, <2>5
  <2>7. Ids(g) = Ids(fs) \cup {b} /\ Ids(h) = Ids(fs) \ {b}
    BY <2>4, <2>6
  <2>8. QED
    BY <2>1, <2>7
<1>3. ASSUME NEW x \in {DoneFrame, FailedFrame, Nothing, STAGE_END}
      PROVE  Ids(fs \cup {x}) = Ids(fs) /\ Ids(fs \ {x}) = Ids(fs)
  BY FrameIds DEF Ids
<1>4. QED
  BY <1>1, <1>2, <1>3

\* A frame more at the end of a pipe, and one less at its head.
LEMMA PipeGrows ==
    ASSUME NEW p \in Seq(Frames), IsInjective(p), NEW x \in Frames, x \notin Range(p)
    PROVE  /\ Append(p, x) \in Seq(Frames) /\ IsInjective(Append(p, x))
           /\ Range(Append(p, x)) = Range(p) \cup {x}
           /\ x \in Results => Ids(Range(Append(p, x))) = Ids(Range(p)) \cup {x.batch}
           /\ x \notin Results => Ids(Range(Append(p, x))) = Ids(Range(p))
<1>1. /\ Append(p, x) \in Seq(Frames) /\ IsInjective(Append(p, x))
      /\ Range(Append(p, x)) = Range(p) \cup {x}
  BY Appended
<1>2. PICK R : R = Range(p)
  OBVIOUS
<1>3. R \in SUBSET (Results \cup {DoneFrame, FailedFrame, Nothing, STAGE_END})
  BY <1>2, RangeOfSeq, FrameIds
<1>4. x \in Results => x.batch \in Nat /\ x = Result(x.batch)
  BY FrameIds
<1>5. x \notin Results => x \in {DoneFrame, FailedFrame, Nothing, STAGE_END}
  BY FrameIds
<1>6. x \in Results => Ids(R \cup {x}) = Ids(R) \cup {x.batch}
  <2>1. \A b \in Nat : Ids(R \cup {Result(b)}) = Ids(R) \cup {b}
    BY <1>3, IdsOf
  <2>2. QED
    BY <1>4, <2>1
<1>7. x \notin Results => Ids(R \cup {x}) = Ids(R)
  BY <1>3, <1>5, IdsOf
<1>8. QED
  BY <1>1, <1>2, <1>6, <1>7

LEMMA PipeShrinks ==
    ASSUME NEW p \in Seq(Frames), IsInjective(p), p # << >>
    PROVE  /\ Tail(p) \in Seq(Frames) /\ IsInjective(Tail(p)) /\ Head(p) \in Frames
           /\ Head(p) \in Range(p) /\ Range(Tail(p)) = Range(p) \ {Head(p)}
           /\ Head(p).tag = "RESULT" =>
                 /\ Head(p) \in Results /\ Head(p).batch \in Ids(Range(p))
                 /\ Ids(Range(Tail(p))) = Ids(Range(p)) \ {Head(p).batch}
           /\ Head(p).tag # "RESULT" => Ids(Range(Tail(p))) = Ids(Range(p))
<1>1. /\ Tail(p) \in Seq(Frames) /\ IsInjective(Tail(p))
      /\ Head(p) \in Range(p) /\ Range(Tail(p)) = Range(p) \ {Head(p)}
  BY Popped
<1>2. PICK R, x : R = Range(p) /\ x = Head(p)
  OBVIOUS
<1>3. R \in SUBSET (Results \cup {DoneFrame, FailedFrame, Nothing, STAGE_END}) /\ x \in Frames /\ x \in R
  BY <1>1, <1>2, RangeOfSeq, FrameIds
<1>4. x.tag = "RESULT" => x \in Results /\ x.batch \in Nat /\ x = Result(x.batch)
  BY <1>3, FrameIds
<1>5. x.tag # "RESULT" => x \in {DoneFrame, FailedFrame, Nothing, STAGE_END}
  BY <1>3, FrameIds
<1>6. x.tag = "RESULT" => x.batch \in Ids(R) /\ Ids(R \ {x}) = Ids(R) \ {x.batch}
  <2>1. \A b \in Nat : b \in Ids(R) <=> Result(b) \in R
    BY <1>3, IdsOf
  <2>2. \A b \in Nat : Ids(R \cup {Result(b)}) = Ids(R) \cup {b} /\ Ids(R \ {Result(b)}) = Ids(R) \ {b}
    BY <1>3, IdsOf
  <2>3. QED
    BY <1>3, <1>4, <2>1, <2>2
<1>7. x.tag # "RESULT" => Ids(R \ {x}) = Ids(R)
  BY <1>3, <1>5, IdsOf
<1>8. QED
  BY <1>1, <1>2, <1>3, <1>4, <1>6, <1>7

\* A task is received.
LEMMA TaskReceived ==
    ASSUME NEW p \in Seq(Frames), NEW o \in Seq(Nat), NEW w, NEW cs, NEW b \in Nat, NEW t,
           Fits(p, o, t, "idle", w, cs), b \notin Hand(p, o, t)
    PROVE  /\ Fits(p, o, b, IF b = STOP THEN "stopping" ELSE "parsing", w, cs)
           /\ Hand(p, o, b) = Hand(p, o, t) \cup ({b} \ {NoTask})
<1>1. t = NoTask
  BY DEF Fits
<1>2. b \notin Ids(Range(p)) \cup Range(o)
  BY DEF Hand
<1>3. Hand(p, o, b) = Hand(p, o, t) \cup ({b} \ {NoTask})
  BY <1>1 DEF Hand
<1>4. PICK s : s = IF b = STOP THEN "stopping" ELSE "parsing"
  OBVIOUS
<1>5. Fits(p, o, b, s, w, cs)
  <2>1. CASE b = STOP
    BY <1>2, <1>4, <2>1 DEF Fits, Living, STOP, NoTask
  <2>2. CASE b # STOP
    BY <1>2, <1>4, <2>2 DEF Fits, Living, STOP, NoTask
  <2>3. QED
    BY <2>1, <2>2
<1>6. QED
  BY <1>3, <1>4, <1>5

\* The worker goes on with what it has, or is gone.
LEMMA StateChanges ==
    ASSUME NEW p, NEW o, NEW t, NEW s, NEW w, NEW cs, Fits(p, o, t, s, w, cs)
    PROVE  /\ s = "init" => Fits(p, o, t, "idle", w, cs)
           /\ s = "parsing" => Fits(p, o, t, "queueing", w, cs)
           /\ Fits(p, << >>, NoTask, "dead", w, cs) /\ Hand(p, << >>, NoTask) \subseteq Hand(p, o, t)
<1>1. IsInjective(<< >>) /\ Range(<< >>) = {}
  BY DEF IsInjective, Range
<1>2. s = "init" => Fits(p, o, t, "idle", w, cs)
  BY DEF Fits, Living
<1>3. s = "parsing" => Fits(p, o, t, "queueing", w, cs)
  BY DEF Fits, Living
<1>4. Fits(p, << >>, NoTask, "dead", w, cs) /\ Hand(p, << >>, NoTask) \subseteq Hand(p, o, t)
  BY <1>1 DEF Fits, Living, Hand
<1>5. QED
  BY <1>2, <1>3, <1>4

\* A parsed batch is queued for the serializer.
LEMMA TaskQueued ==
    ASSUME NEW p \in Seq(Frames), NEW o \in Seq(Nat), NEW t \in Nat, NEW w, NEW cs,
           Fits(p, o, t, "queueing", w, cs)
    PROVE  /\ Append(o, t) \in Seq(Nat) /\ Fits(p, Append(o, t), NoTask, "idle", w, cs)
           /\ Hand(p, Append(o, t), NoTask) = Hand(p, o, t)
<1>1. t # NoTask /\ IsInjective(o) /\ t \notin Range(o)
  BY DEF Fits
<1>2. PICK q : q = Append(o, t)
  OBVIOUS
<1>3. q \in Seq(Nat) /\ IsInjective(q) /\ Range(q) = Range(o) \cup {t}
  BY <1>1, <1>2, Appended
<1>4. Fits(p, q, NoTask, "idle", w, cs)
  BY <1>1, <1>3 DEF Fits, Living
<1>5. Hand(p, q, NoTask) = Hand(p, o, t)
  BY <1>1, <1>3 DEF Hand
<1>6. QED
  BY <1>2, <1>3, <1>4, <1>5

\* The serializer sends the oldest one.
LEMMA ResultSent ==
    ASSUME NEW p \in Seq(Frames), NEW o \in Seq(Nat), NEW t \in Nat, NEW s, NEW w, NEW cs,
           Fits(p, o, t, s, w, cs), s \in Living, o # << >>, NEW x, x = Result(Head(o))
    PROVE  /\ Append(p, x) \in Seq(Frames) /\ Tail(o) \in Seq(Nat)
           /\ Fits(Append(p, x), Tail(o), t, s, w, cs)
           /\ Hand(Append(p, x), Tail(o), t) = Hand(p, o, t)
<1>1. IsInjective(o) /\ IsInjective(p) /\ Ids(Range(p)) \cap Range(o) = {}
  BY DEF Fits
<1>2. PICK b, q, r : b = Head(o) /\ q = Tail(o) /\ r = Append(p, x)
  OBVIOUS
<1>3. q \in Seq(Nat) /\ IsInjective(q) /\ b \in Range(o) /\ Range(q) = Range(o) \ {b}
  BY <1>1, <1>2, Popped
<1>4. b \in Nat
  BY <1>2
<1>5. x \in Results /\ x \in Frames /\ x.batch = b
  BY <1>2, <1>4, FrameIds
<1>6. x \notin Range(p)
  <2>1. Range(p) \in SUBSET (Results \cup {DoneFrame, FailedFrame, Nothing, STAGE_END})
    BY RangeOfSeq, FrameIds
  <2>2. b \in Ids(Range(p)) <=> Result(b) \in Range(p)
    BY <1>4, <2>1, IdsOf
  <2>3. QED
    BY <1>1, <1>2, <1>3, <2>2
<1>7. /\ r \in Seq(Frames) /\ IsInjective(r) /\ Range(r) = Range(p) \cup {x}
      /\ Ids(Range(r)) = Ids(Range(p)) \cup {b}
  BY <1>1, <1>2, <1>5, <1>6, PipeGrows
<1>8. Fits(r, q, t, s, w, cs)
  <2>1. s \in {"init", "exited", "dead"} => q = << >>
    BY DEF Fits
  <2>2. s \in Living => w \in cs /\ Range(r) \subseteq Results
    BY <1>5, <1>7 DEF Fits
  <2>3. w \notin cs => r = << >>
    BY DEF Fits
  <2>4. Ids(Range(r)) \cap Range(q) = {} /\ NoTask \notin Ids(Range(r)) \cup Range(q)
    BY <1>3, <1>7 DEF Fits
  <2>5. t \notin Ids(Range(r)) \cup Range(q) /\ (t = NoTask <=> s \notin {"parsing", "queueing"})
    BY <1>3, <1>7 DEF Fits
  <2>6. QED
    BY <1>3, <1>7, <2>1, <2>2, <2>3, <2>4, <2>5 DEF Fits
<1>9. Hand(r, q, t) = Hand(p, o, t)
  BY <1>3, <1>7 DEF Hand
<1>10. QED
  BY <1>2, <1>3, <1>7, <1>8, <1>9

\* The last frame of a worker.
LEMMA LastFrame ==
    ASSUME NEW p \in Seq(Frames), NEW o \in Seq(Nat), NEW t \in Nat, NEW s \in {"init", "stopping"},
           NEW w, NEW cs, Fits(p, o, t, s, w, cs), s = "stopping" => o = << >>, NEW x \in {DoneFrame, FailedFrame}
    PROVE  /\ Append(p, x) \in Seq(Frames) /\ Fits(Append(p, x), o, t, "exited", w, cs)
           /\ Hand(Append(p, x), o, t) = Hand(p, o, t)
<1>1. IsInjective(p) /\ Range(p) \subseteq Results /\ w \in cs /\ t = NoTask
  BY DEF Fits, Living
<1>2. x \in Frames /\ x \notin Results
  BY FrameIds
<1>3. PICK r : r = Append(p, x)
  OBVIOUS
<1>4. r \in Seq(Frames) /\ IsInjective(r) /\ Ids(Range(r)) = Ids(Range(p))
  BY <1>1, <1>2, <1>3, PipeGrows
<1>5. Fits(r, o, t, "exited", w, cs)
  BY <1>1, <1>4 DEF Fits, Living
<1>6. QED
  BY <1>3, <1>4, <1>5 DEF Hand

\* The reader takes a frame out of a pipe.
LEMMA FrameRead ==
    ASSUME NEW p \in Seq(Frames), NEW o \in Seq(Nat), NEW t \in Nat, NEW s, NEW w, NEW cs,
           Fits(p, o, t, s, w, cs), p # << >>
    PROVE  /\ Tail(p) \in Seq(Frames) /\ Fits(Tail(p), o, t, s, w, cs)
           /\ Hand(Tail(p), o, t) \subseteq Hand(p, o, t)
           /\ Head(p).tag = "RESULT" =>
                 /\ Head(p) \in Results /\ Head(p).batch \in Hand(p, o, t)
                 /\ Head(p).batch \notin Hand(Tail(p), o, t)
<1>1. IsInjective(p)
  BY DEF Fits
<1>2. PICK q, x : q = Tail(p) /\ x = Head(p)
  OBVIOUS
<1>3. /\ q \in Seq(Frames) /\ IsInjective(q) /\ Range(q) = Range(p) \ {x}
      /\ x.tag = "RESULT" =>
            x \in Results /\ x.batch \in Ids(Range(p)) /\ Ids(Range(q)) = Ids(Range(p)) \ {x.batch}
      /\ x.tag # "RESULT" => Ids(Range(q)) = Ids(Range(p))
  BY <1>1, <1>2, PipeShrinks
<1>4. Ids(Range(q)) \subseteq Ids(Range(p)) /\ Range(q) \subseteq Range(p)
  BY <1>3
<1>5. w \in cs
  BY DEF Fits
<1>6. Fits(q, o, t, s, w, cs)
  BY <1>3, <1>4, <1>5 DEF Fits
<1>7. Hand(q, o, t) \subseteq Hand(p, o, t)
  BY <1>4 DEF Hand
<1>8. ASSUME x.tag = "RESULT"
      PROVE  x \in Results /\ x.batch \in Hand(p, o, t) /\ x.batch \notin Hand(q, o, t)
  <2>1. x.batch \in Ids(Range(p)) /\ x.batch \notin Ids(Range(q)) /\ x \in Results
    BY <1>3, <1>8
  <2>2. x.batch \notin Range(o) \cup {t}
    BY <2>1 DEF Fits
  <2>3. QED
    BY <2>1, <2>2 DEF Hand
<1>9. QED
  BY <1>2, <1>3, <1>6, <1>7, <1>8

\* The connection of a worker that is gone is closed.
LEMMA ConnectionClosed ==
    ASSUME NEW p, NEW o, NEW t, NEW s, NEW w, NEW cs, Fits(p, o, t, s, w, cs), NEW v,
           v = w => p = << >> /\ s \notin Living
    PROVE  Fits(p, o, t, s, w, cs \ {v})
  BY DEF Fits

(***************************************************************************)
(* The dispatch state, before and after each thing that happens to it.     *)
(***************************************************************************)
LEMMA FewerHeld ==
    ASSUME NEW W, NEW B, NEW elsewhere, NEW live \in SUBSET W, NEW held,
           NEW d, Sound(d, W, B, elsewhere, live, held),
           NEW live2 \in SUBSET live, NEW held2, \A v \in W : held2[v] \subseteq held[v]
    PROVE  Sound(d, W, B, elsewhere, live2, held2)
<1>1. Told(d, W, live2, held2)
  <2>1. \A v \in W : held2[v] \subseteq Range(d.assigned[v])
    BY DEF Sound, Told
  <2>2. ASSUME NEW v \in live2
        PROVE  /\ IsInjective(d.tasks[v]) /\ Range(d.tasks[v]) \subseteq Range(d.assigned[v]) \cup {STOP}
               /\ Range(d.tasks[v]) \cap held2[v] = {}
               /\ STOP \in Range(d.tasks[v]) => v \in d.stopped
    BY DEF Sound, Told
  <2>3. QED
    BY <2>1, <2>2 DEF Told
<1>2. QED
  BY <1>1 DEF Sound

\* A worker takes its next task; a batch is back from its worker.
Taken(d, w) == [d EXCEPT !.tasks[w] = Tail(d.tasks[w])]
\* The worker has the task, and no other worker has more.
Gains(held2, held, W, w, b) ==
    held2[w] = held[w] \cup ({b} \ {NoTask}) /\ \A v \in W \ {w} : held2[v] = held[v]
Loses(held2, held, W, w, b) ==
    b \in held[w] /\ held2[w] \subseteq held[w] \ {b} /\ \A v \in W \ {w} : held2[v] = held[v]
Grown(E, S) == E \cup S
Returned(d, w, b) == [d EXCEPT !.assigned[w] = RemoveFirst(d.assigned[w], b)]

\* WorkerRecv.
LEMMA TaskTaken ==
    ASSUME NEW W, NEW B \in SUBSET (Nat \ {0}), NEW elsewhere, NEW live \in SUBSET W, NEW held,
           NEW d, Sound(d, W, B, elsewhere, live, held), NEW w \in live, d.tasks[w] # << >>,
           NEW b, b = Head(d.tasks[w]), NEW e, e = Taken(d, w),
           NEW held2, Gains(held2, held, W, w, b)
    PROVE  Sound(e, W, B, elsewhere, live, held2) /\ b \notin held[w] /\ b \in Nat /\ e.assigned = d.assigned
<1>1. d \in Disps(W) /\ OnePlace(d, W, B, elsewhere) /\ Told(d, W, live, held)
  BY DEF Sound
<1>2. d.tasks[w] \in Seq(Nat) /\ w \in W
  BY <1>1 DEF Disps
<1>3. PICK q : q = Tail(d.tasks[w])
  OBVIOUS
<1>4. q \in Seq(Nat) /\ b \in Nat
  BY <1>2, <1>3
<1>5. /\ e \in Disps(W) /\ e.pending = d.pending /\ e.assigned = d.assigned /\ e.stopped = d.stopped
      /\ e.tasks[w] = q /\ \A v \in W \ {w} : e.tasks[v] = d.tasks[v]
  <2>1. PICK t : t = [d.tasks EXCEPT ![w] = q]
    OBVIOUS
  <2>2. t \in [W -> Seq(Nat)] /\ t[w] = q /\ \A v \in W \ {w} : t[v] = d.tasks[v]
    BY <1>1, <1>2, <1>4, <2>1 DEF Disps
  <2>3. e = [d EXCEPT !.tasks = t]
    BY <1>3, <2>1 DEF Taken
  <2>4. QED
    BY <1>1, <2>2, <2>3 DEF Disps
<1>6. /\ IsInjective(d.tasks[w]) /\ Range(d.tasks[w]) \subseteq Range(d.assigned[w]) \cup {STOP}
      /\ Range(d.tasks[w]) \cap held[w] = {} /\ (STOP \in Range(d.tasks[w]) => w \in d.stopped)
      /\ held[w] \subseteq Range(d.assigned[w])
  BY <1>1, <1>2 DEF Told
<1>7. IsInjective(q) /\ b \in Range(d.tasks[w]) /\ Range(q) = Range(d.tasks[w]) \ {b}
  BY <1>2, <1>3, <1>6, Popped
<1>8. OnePlace(e, W, B, elsewhere)
  BY <1>1, <1>5 DEF OnePlace
<1>9. Told(e, W, live, held2)
  <2>1. ASSUME NEW v \in W PROVE held2[v] \subseteq Range(e.assigned[v])
    <3>1. CASE v = w
      BY <1>5, <1>6, <1>7, <3>1 DEF NoTask, STOP, Gains
    <3>2. CASE v # w
      BY <1>1, <1>5, <3>2 DEF Told, Gains
    <3>3. QED
      BY <3>1, <3>2
  <2>2. ASSUME NEW v \in live
        PROVE  /\ IsInjective(e.tasks[v]) /\ Range(e.tasks[v]) \subseteq Range(e.assigned[v]) \cup {STOP}
               /\ Range(e.tasks[v]) \cap held2[v] = {}
               /\ STOP \in Range(e.tasks[v]) => v \in e.stopped
    <3>1. CASE v = w
      BY <1>5, <1>6, <1>7, <3>1 DEF Gains
    <3>2. CASE v # w
      BY <1>1, <1>5, <3>2 DEF Told, Gains
    <3>3. QED
      BY <3>1, <3>2
  <2>3. QED
    BY <2>1, <2>2 DEF Told
<1>10. b \notin held[w]
  BY <1>6, <1>7
<1>11. QED
  BY <1>4, <1>5, <1>8, <1>9, <1>10 DEF Sound

\* ReadResult: the batch leaves its worker.
LEMMA BatchReturned ==
    ASSUME NEW W, NEW B \in SUBSET (Nat \ {0}), NEW elsewhere, NEW live \in SUBSET W, NEW held,
           NEW d, Sound(d, W, B, elsewhere, live, held), NEW w \in W, NEW b,
           NEW held2, Loses(held2, held, W, w, b),
           NEW e, e = Returned(d, w, b)
    PROVE  /\ Sound(e, W, B, Grown(elsewhere, {b}), live, held2)
           /\ b \in B /\ b \notin elsewhere
           /\ Len(e.assigned[w]) = Len(d.assigned[w]) - 1
           /\ Others(e, d, W, w)
<1>1. d \in Disps(W) /\ OnePlace(d, W, B, elsewhere) /\ Told(d, W, live, held)
  BY DEF Sound
<1>2. d.assigned[w] \in Seq(Nat) /\ d.pending \in Seq(Nat)
  BY <1>1 DEF Disps
<1>3. PICK a, q : a = d.assigned[w] /\ q = RemoveFirst(a, b)
  OBVIOUS
<1>4. a \in Seq(Nat) /\ IsInjective(a) /\ b \in Range(a) /\ Range(a) \subseteq B \ elsewhere
  BY <1>1, <1>2, <1>3 DEF OnePlace, Told, Loses
<1>5. q \in Seq(Nat) /\ IsInjective(q) /\ Range(q) = Range(a) \ {b} /\ Len(q) = Len(a) - 1
  <2>1. q \in Seq(Nat) /\ IsInjective(q) /\ Range(q) = Range(a) \ {b}
    BY <1>3, <1>4, Removed
  <2>2. PICK i \in 1..Len(a) : a[i] = b
    BY <1>4 DEF Range
  <2>3. q = SubSeq(a, 1, i - 1) \o SubSeq(a, i + 1, Len(a))
    BY <1>3, <1>4, <2>2, RemoveFirstPlace
  <2>4. Len(q) = Len(a) - 1
    <3>1. PICK n : n = Len(a)
      OBVIOUS
    <3>2. n \in Nat /\ i \in Nat /\ 1 <= i /\ i <= n
      BY <1>4, <3>1
    <3>3. SubSeq(a, 1, i - 1) \in Seq(Nat) /\ Len(SubSeq(a, 1, i - 1)) = i - 1
      BY <1>4, <3>1, <3>2, SubSeqProperties
    <3>4. SubSeq(a, i + 1, n) \in Seq(Nat) /\ Len(SubSeq(a, i + 1, n)) = n - i
      BY <1>4, <3>1, <3>2, SubSeqProperties
    <3>5. Len(q) = (i - 1) + (n - i)
      <4>1. PICK x, y : x = SubSeq(a, 1, i - 1) /\ y = SubSeq(a, i + 1, n)
        OBVIOUS
      <4>2. x \in Seq(Nat) /\ y \in Seq(Nat) /\ Len(x) = i - 1 /\ Len(y) = n - i /\ q = x \o y
        BY <2>3, <3>1, <3>3, <3>4, <4>1
      <4>3. Len(x \o y) = Len(x) + Len(y)
        <5>1. x \in Seq(Nat) /\ y \in Seq(Nat)
          BY <4>2
        <5>2. QED
          BY <5>1
      <4>4. QED
        BY <4>2, <4>3
    <3>6. QED
      BY <3>1, <3>2, <3>5
  <2>5. QED
    BY <2>1, <2>4
<1>6. /\ e \in Disps(W) /\ e.pending = d.pending /\ e.tasks = d.tasks /\ e.stopped = d.stopped
      /\ e.assigned[w] = q /\ \A v \in W \ {w} : e.assigned[v] = d.assigned[v]
  <2>1. PICK t : t = [d.assigned EXCEPT ![w] = q]
    OBVIOUS
  <2>2. t \in [W -> Seq(Nat)] /\ t[w] = q /\ \A v \in W \ {w} : t[v] = d.assigned[v]
    BY <1>1, <1>2, <1>5, <2>1 DEF Disps
  <2>3. e = [d EXCEPT !.assigned = t]
    BY <1>3, <2>1 DEF Returned
  <2>4. QED
    BY <1>1, <2>2, <2>3 DEF Disps
<1>7. b \in B \ elsewhere /\ b \notin Range(d.pending) /\ \A v \in W \ {w} : b \notin Range(d.assigned[v])
  BY <1>1, <1>3, <1>4 DEF OnePlace
<1>8. OnePlace(e, W, B, elsewhere \cup {b})
  <2>1. IsInjective(e.pending) /\ Range(e.pending) \subseteq B \ (elsewhere \cup {b})
    BY <1>1, <1>6, <1>7 DEF OnePlace
  <2>2. ASSUME NEW v \in W
        PROVE  /\ IsInjective(e.assigned[v]) /\ Range(e.assigned[v]) \subseteq B \ (elsewhere \cup {b})
               /\ Range(e.assigned[v]) \cap Range(e.pending) = {}
    <3>1. CASE v = w
      BY <1>1, <1>3, <1>4, <1>5, <1>6, <3>1 DEF OnePlace
    <3>2. CASE v # w
      BY <1>1, <1>6, <1>7, <3>2 DEF OnePlace
    <3>3. QED
      BY <3>1, <3>2
  <2>3. ASSUME NEW u \in W, NEW v \in W, u # v PROVE Range(e.assigned[u]) \cap Range(e.assigned[v]) = {}
    BY <1>1, <1>3, <1>5, <1>6, <2>3 DEF OnePlace
  <2>4. ASSUME NEW c \in B \ (elsewhere \cup {b})
        PROVE  c \in Range(e.pending) \/ \E v \in W : c \in Range(e.assigned[v])
    <3>1. CASE c \in Range(d.pending)
      BY <1>6, <3>1
    <3>2. CASE c \notin Range(d.pending)
      <4>1. PICK v \in W : c \in Range(d.assigned[v])
        BY <1>1, <3>2 DEF OnePlace
      <4>2. c \in Range(e.assigned[v])
        BY <1>3, <1>5, <1>6, <4>1
      <4>3. QED
        BY <4>2
    <3>3. QED
      BY <3>1, <3>2
  <2>5. QED
    BY <2>1, <2>2, <2>3, <2>4 DEF OnePlace
<1>9. Told(e, W, live, held2)
  <2>1. ASSUME NEW v \in W PROVE held2[v] \subseteq Range(e.assigned[v])
    <3>1. CASE v = w
      BY <1>1, <1>3, <1>5, <1>6, <3>1 DEF Told, Loses
    <3>2. CASE v # w
      BY <1>1, <1>6, <3>2 DEF Told, Loses
    <3>3. QED
      BY <3>1, <3>2
  <2>2. ASSUME NEW v \in live
        PROVE  /\ IsInjective(e.tasks[v]) /\ Range(e.tasks[v]) \subseteq Range(e.assigned[v]) \cup {STOP}
               /\ Range(e.tasks[v]) \cap held2[v] = {}
               /\ STOP \in Range(e.tasks[v]) => v \in e.stopped
    <3>1. /\ IsInjective(d.tasks[v]) /\ Range(d.tasks[v]) \subseteq Range(d.assigned[v]) \cup {STOP}
          /\ Range(d.tasks[v]) \cap held[v] = {} /\ (STOP \in Range(d.tasks[v]) => v \in d.stopped)
      BY <1>1 DEF Told
    <3>2. CASE v = w
      BY <1>3, <1>5, <1>6, <3>1, <3>2 DEF Loses
    <3>3. CASE v # w
      BY <1>6, <3>1, <3>3 DEF Loses
    <3>4. QED
      BY <3>2, <3>3
  <2>3. QED
    BY <2>1, <2>2 DEF Told
<1>10. QED
  BY <1>3, <1>5, <1>6, <1>7, <1>8, <1>9 DEF Sound, Others, Grown

\* ReadEOF: what a worker that is gone had not begun is pending again; its
\* oldest batch may be blamed for its death.
EmptyHands(held, w) == held[w] = {}
Blames(d, w, u, blamed) ==
    \/ u = d.assigned[w] /\ blamed = {}
    \/ d.assigned[w] # << >> /\ u = Tail(d.assigned[w]) /\ blamed = {Head(d.assigned[w])}

GivenBack(e, d, W, B, elsewhere, live, held, w, blamed) ==
    /\ Sound(e, W, B, Grown(elsewhere, blamed), live, held)
    /\ blamed \subseteq B \ elsewhere
    /\ Len(e.assigned[w]) = 0 /\ Others(e, d, W, w)

LEMMA BatchesGivenBack ==
    ASSUME NEW W, NEW B \in SUBSET (Nat \ {0}), NEW elsewhere, NEW live \in SUBSET W, NEW held,
           NEW d, Sound(d, W, B, elsewhere, live, held), NEW w \in W, w \notin live, EmptyHands(held, w),
           NEW u, NEW blamed,
           Blames(d, w, u, blamed),
           NEW e, e = GiveBack(d, w, u)
    PROVE  GivenBack(e, d, W, B, elsewhere, live, held, w, blamed)
<1>1. d \in Disps(W) /\ OnePlace(d, W, B, elsewhere) /\ Told(d, W, live, held)
  BY DEF Sound
<1>2. d.assigned[w] \in Seq(Nat) /\ d.pending \in Seq(Nat)
  BY <1>1 DEF Disps
<1>3. PICK a : a = d.assigned[w]
  OBVIOUS
<1>4. /\ a \in Seq(Nat) /\ IsInjective(a) /\ Range(a) \subseteq B \ elsewhere
      /\ Range(a) \cap Range(d.pending) = {} /\ IsInjective(d.pending)
      /\ Range(d.pending) \subseteq B \ elsewhere
  BY <1>1, <1>2, <1>3 DEF OnePlace
<1>5. u \in Seq(Nat) /\ IsInjective(u) /\ Range(u) = Range(a) \ blamed /\ blamed \subseteq Range(a)
  <2>1. CASE u = a /\ blamed = {}
    BY <1>4, <2>1
  <2>2. CASE a # << >> /\ u = Tail(a) /\ blamed = {Head(a)}
    <3>1. /\ Tail(a) \in Seq(Nat) /\ IsInjective(Tail(a))
          /\ Head(a) \in Range(a) /\ Range(Tail(a)) = Range(a) \ {Head(a)}
      BY <1>4, <2>2, Popped
    <3>2. QED
      BY <2>2, <3>1
  <2>3. QED
    BY <1>3, <2>1, <2>2 DEF Blames
<1>6. PICK p : p = u \o d.pending
  OBVIOUS
<1>7. p \in Seq(Nat) /\ IsInjective(p) /\ Range(p) = Range(u) \cup Range(d.pending)
  <2>1. Range(u) \cap Range(d.pending) = {}
    BY <1>4, <1>5
  <2>2. QED
    BY <1>2, <1>4, <1>5, <1>6, <2>1, Joined
<1>8. /\ e \in Disps(W) /\ e.pending = p /\ e.tasks = d.tasks /\ e.stopped = d.stopped
      /\ e.assigned[w] = << >> /\ \A v \in W \ {w} : e.assigned[v] = d.assigned[v]
  <2>1. PICK t : t = [d.assigned EXCEPT ![w] = << >>]
    OBVIOUS
  <2>2. t \in [W -> Seq(Nat)] /\ t[w] = << >> /\ \A v \in W \ {w} : t[v] = d.assigned[v]
    BY <1>1, <1>2, <2>1 DEF Disps
  <2>3. e = [d EXCEPT !.pending = p, !.assigned = t]
    BY <1>6, <2>1 DEF GiveBack
  <2>4. QED
    BY <1>1, <1>7, <2>2, <2>3 DEF Disps
<1>9. Range(<< >>) = {} /\ IsInjective(<< >>) /\ Len(<< >>) = 0
  BY DEF Range, IsInjective
<1>10. \A v \in W \ {w} : Range(a) \cap Range(d.assigned[v]) = {}
  BY <1>1, <1>3 DEF OnePlace
<1>11. OnePlace(e, W, B, elsewhere \cup blamed)
  <2>1. IsInjective(e.pending) /\ Range(e.pending) \subseteq B \ (elsewhere \cup blamed)
    BY <1>4, <1>5, <1>7, <1>8
  <2>2. ASSUME NEW v \in W
        PROVE  /\ IsInjective(e.assigned[v]) /\ Range(e.assigned[v]) \subseteq B \ (elsewhere \cup blamed)
               /\ Range(e.assigned[v]) \cap Range(e.pending) = {}
    <3>1. CASE v = w
      BY <1>8, <1>9, <3>1
    <3>2. CASE v # w
      <4>1. /\ IsInjective(d.assigned[v]) /\ Range(d.assigned[v]) \subseteq B \ elsewhere
            /\ Range(d.assigned[v]) \cap Range(d.pending) = {} /\ Range(a) \cap Range(d.assigned[v]) = {}
        BY <1>1, <1>10, <3>2 DEF OnePlace
      <4>2. QED
        BY <1>5, <1>7, <1>8, <3>2, <4>1
    <3>3. QED
      BY <3>1, <3>2
  <2>3. ASSUME NEW x \in W, NEW v \in W, x # v PROVE Range(e.assigned[x]) \cap Range(e.assigned[v]) = {}
    BY <1>1, <1>8, <1>9, <2>3 DEF OnePlace
  <2>4. ASSUME NEW c \in B \ (elsewhere \cup blamed)
        PROVE  c \in Range(e.pending) \/ \E v \in W : c \in Range(e.assigned[v])
    <3>1. CASE c \in Range(d.pending) \/ c \in Range(a)
      BY <1>5, <1>7, <1>8, <3>1
    <3>2. CASE c \notin Range(d.pending) /\ c \notin Range(a)
      <4>1. PICK v \in W : c \in Range(d.assigned[v])
        BY <1>1, <3>2 DEF OnePlace
      <4>2. v # w
        BY <1>3, <3>2, <4>1
      <4>3. c \in Range(e.assigned[v])
        BY <1>8, <4>1, <4>2
      <4>4. QED
        BY <4>3
    <3>3. QED
      BY <3>1, <3>2
  <2>5. QED
    BY <2>1, <2>2, <2>3, <2>4 DEF OnePlace
<1>12. Told(e, W, live, held)
  <2>1. ASSUME NEW v \in W PROVE held[v] \subseteq Range(e.assigned[v])
    <3>1. CASE v = w
      BY <3>1 DEF EmptyHands
    <3>2. CASE v # w
      BY <1>1, <1>8, <3>2 DEF Told
    <3>3. QED
      BY <3>1, <3>2
  <2>2. ASSUME NEW v \in live
        PROVE  /\ IsInjective(e.tasks[v]) /\ Range(e.tasks[v]) \subseteq Range(e.assigned[v]) \cup {STOP}
               /\ Range(e.tasks[v]) \cap held[v] = {}
               /\ STOP \in Range(e.tasks[v]) => v \in e.stopped
    <3>1. v \in W \ {w}
      OBVIOUS
    <3>2. QED
      BY <1>1, <1>8, <3>1 DEF Told
  <2>3. QED
    BY <2>1, <2>2 DEF Told
<1>13. QED
  BY <1>4, <1>5, <1>8, <1>9, <1>11, <1>12 DEF GivenBack, Sound, Others, Grown


(***************************************************************************)
(* The way of a result: offered by the reader, queued, taken.              *)
(***************************************************************************)
Carries(fs, o) ==
    {fs[i].batch : i \in {j \in DOMAIN fs : fs[j] # STAGE_END}}
    \cup (IF o \in {Nothing, STAGE_END} THEN {} ELSE {o.batch})

LEMMA CarriesIds ==
    ASSUME NEW fs \in Seq(Results \cup {STAGE_END}), NEW o \in Results \cup {Nothing, STAGE_END}
    PROVE  /\ Carries(fs, o) = Ids(Range(fs) \cup {o})
           /\ Range(fs) \in SUBSET (Results \cup {STAGE_END})
           /\ Range(fs) \cup {o} \in SUBSET (Results \cup {DoneFrame, FailedFrame, Nothing, STAGE_END})
<1>1. Range(fs) \in SUBSET (Results \cup {STAGE_END})
  BY RangeOfSeq
<1>2. \A x \in Range(fs) \cup {o} : x.tag = "RESULT" <=> x \notin {Nothing, STAGE_END}
  <2>1. \A x \in Results \cup {Nothing, STAGE_END} : x.tag = "RESULT" <=> x \notin {Nothing, STAGE_END}
    BY FrameIds
  <2>2. QED
    BY <1>1, <2>1
<1>3. Nothing \notin Range(fs)
  BY <1>1, FrameIds
<1>4. {fs[i].batch : i \in {j \in DOMAIN fs : fs[j] # STAGE_END}} = Ids(Range(fs))
  BY <1>2, <1>3 DEF Ids, Range
<1>5. (IF o \in {Nothing, STAGE_END} THEN {} ELSE {o.batch}) = Ids({o})
  BY <1>2 DEF Ids
<1>6. Ids(Range(fs) \cup {o}) = Ids(Range(fs)) \cup Ids({o})
  BY DEF Ids
<1>7. QED
  BY <1>1, <1>4, <1>5, <1>6 DEF Carries

\* The reader has a result to offer.
LEMMA OfferMade ==
    ASSUME NEW fs \in Seq(Results \cup {STAGE_END}), NEW x \in Results,
           x.batch \notin Carries(fs, Nothing)
    PROVE  Carries(fs, x) = Carries(fs, Nothing) \cup {x.batch} /\ x \notin Range(fs)
<1>1. PICK R : R = Range(fs)
  OBVIOUS
<1>2. /\ Carries(fs, x) = Ids(R \cup {x}) /\ Carries(fs, Nothing) = Ids(R \cup {Nothing})
      /\ R \in SUBSET (Results \cup {STAGE_END})
  BY <1>1, CarriesIds
<1>3. R \in SUBSET (Results \cup {DoneFrame, FailedFrame, Nothing, STAGE_END})
  BY <1>2
<1>4. x.batch \in Nat /\ x = Result(x.batch)
  BY FrameIds
<1>5. Ids(R \cup {Nothing}) = Ids(R)
  BY <1>3, IdsOf
<1>6. \A b \in Nat : b \in Ids(R) <=> Result(b) \in R
  BY <1>3, IdsOf
<1>7. \A b \in Nat : Ids(R \cup {Result(b)}) = Ids(R) \cup {b}
  BY <1>3, IdsOf
<1>8. QED
  BY <1>1, <1>2, <1>4, <1>5, <1>6, <1>7

\* _offer puts it on the queue.
LEMMA OfferQueued ==
    ASSUME NEW fs \in Seq(Results \cup {STAGE_END}), NEW x \in Results, IsInjective(fs), x \notin Range(fs)
    PROVE  /\ Append(fs, x) \in Seq(Results \cup {STAGE_END}) /\ IsInjective(Append(fs, x))
           /\ Carries(Append(fs, x), Nothing) = Carries(fs, x)
           /\ STAGE_END \in Range(Append(fs, x)) => STAGE_END \in Range(fs)
           /\ Nothing \notin Range(Append(fs, x))
<1>1. PICK q : q = Append(fs, x)
  OBVIOUS
<1>2. q \in Seq(Results \cup {STAGE_END}) /\ IsInjective(q) /\ Range(q) = Range(fs) \cup {x}
  BY <1>1, Appended
<1>3. PICK R : R = Range(q)
  OBVIOUS
<1>4. /\ Carries(q, Nothing) = Ids(R \cup {Nothing}) /\ Carries(fs, x) = Ids(R)
      /\ R \in SUBSET (Results \cup {STAGE_END})
  BY <1>2, <1>3, CarriesIds
<1>5. Ids(R \cup {Nothing}) = Ids(R)
  <2>1. R \in SUBSET (Results \cup {DoneFrame, FailedFrame, Nothing, STAGE_END})
    BY <1>4
  <2>2. QED
    BY <2>1, IdsOf
<1>6. Nothing \notin R /\ x # STAGE_END
  BY <1>4, FrameIds
<1>7. QED
  BY <1>1, <1>2, <1>3, <1>4, <1>5, <1>6

\* After the last one, the end of the stage.
LEMMA EndQueued ==
    ASSUME NEW fs \in Seq(Results \cup {STAGE_END}), IsInjective(fs), STAGE_END \notin Range(fs)
    PROVE  /\ Append(fs, STAGE_END) \in Seq(Results \cup {STAGE_END}) /\ IsInjective(Append(fs, STAGE_END))
           /\ Carries(Append(fs, STAGE_END), STAGE_END) = Carries(fs, Nothing)
<1>1. PICK q : q = Append(fs, STAGE_END)
  OBVIOUS
<1>2. q \in Seq(Results \cup {STAGE_END}) /\ IsInjective(q) /\ Range(q) = Range(fs) \cup {STAGE_END}
  BY <1>1, Appended
<1>3. PICK R : R = Range(fs)
  OBVIOUS
<1>4. /\ Carries(q, STAGE_END) = Ids(R \cup {STAGE_END}) /\ Carries(fs, Nothing) = Ids(R \cup {Nothing})
      /\ R \in SUBSET (Results \cup {STAGE_END})
  <2>1. Range(q) \cup {STAGE_END} = R \cup {STAGE_END}
    BY <1>2, <1>3
  <2>2. QED
    BY <1>2, <1>3, <2>1, CarriesIds
<1>5. Ids(R \cup {Nothing}) = Ids(R) /\ Ids(R \cup {STAGE_END}) = Ids(R)
  <2>1. R \in SUBSET (Results \cup {DoneFrame, FailedFrame, Nothing, STAGE_END})
    BY <1>4
  <2>2. QED
    BY <2>1, IdsOf
<1>6. QED
  BY <1>1, <1>2, <1>4, <1>5

\* The main thread takes the oldest one.
LEMMA ResultTaken ==
    ASSUME NEW fs \in Seq(Results \cup {STAGE_END}), NEW o \in Results \cup {Nothing, STAGE_END},
           IsInjective(fs), fs # << >>, Head(fs) # STAGE_END, o \notin Range(fs) \/ o = STAGE_END
    PROVE  /\ Tail(fs) \in Seq(Results \cup {STAGE_END}) /\ IsInjective(Tail(fs))
           /\ Range(Tail(fs)) \subseteq Range(fs)
           /\ Head(fs).batch \in Carries(fs, o)
           /\ Carries(Tail(fs), o) = Carries(fs, o) \ {Head(fs).batch}
<1>1. PICK q, x : q = Tail(fs) /\ x = Head(fs)
  OBVIOUS
<1>2. q \in Seq(Results \cup {STAGE_END}) /\ IsInjective(q) /\ x \in Range(fs) /\ Range(q) = Range(fs) \ {x}
  BY <1>1, Popped
<1>3. PICK R : R = Range(fs) \cup {o}
  OBVIOUS
<1>4. Range(fs) \in SUBSET (Results \cup {STAGE_END})
  BY CarriesIds
<1>5. x \in Results /\ x # o
  BY <1>1, <1>2, <1>4
<1>6. Range(q) \cup {o} = R \ {x}
  BY <1>2, <1>3, <1>5
<1>7. /\ Carries(fs, o) = Ids(R) /\ Carries(q, o) = Ids(R \ {x})
      /\ R \in SUBSET (Results \cup {DoneFrame, FailedFrame, Nothing, STAGE_END})
  BY <1>2, <1>3, <1>6, CarriesIds
<1>8. x.batch \in Nat /\ x = Result(x.batch)
  BY <1>5, FrameIds
<1>9. \A b \in Nat : Ids(R \ {Result(b)}) = Ids(R) \ {b}
  BY <1>7, IdsOf
<1>10. \A b \in Nat : b \in Ids(R) <=> Result(b) \in R
  BY <1>7, IdsOf
<1>11. QED
  BY <1>1, <1>2, <1>3, <1>7, <1>8, <1>9, <1>10

(***************************************************************************)
(* What changes in a step, and what does not.                              *)
(***************************************************************************)
Changed(g, f, w, x) == g = [f EXCEPT ![w] = x]

\* The state of one worker changes; the others stay as they are.
LEMMA HandsMove ==
    ASSUME WorkerTypes, \A v \in Workers : FitsIn(v), batches' = batches, openConns' = openConns,
           NEW w \in Workers,
           NEW p \in Seq(Frames), NEW o \in Seq(Nat), NEW t \in Nat, NEW s \in WorkerStates,
           Changed(pipe', pipe, w, p), Changed(outbox', outbox, w, o),
           Changed(task', task, w, t), Changed(worker', worker, w, s),
           Fits(p, o, t, s, w, openConns), s \in Living => worker[w] \in Living
    PROVE  /\ WorkerTypes' /\ (\A v \in Workers : FitsIn(v))'
           /\ Hands'[w] = Hand(p, o, t) /\ \A v \in Workers \ {w} : Hands'[v] = Hands[v]
           /\ Live' \in SUBSET Live /\ Live \in SUBSET Workers
<1>1. Workers' = Workers
  BY DEF Workers
<1>2. /\ worker \in [Workers -> WorkerStates] /\ task \in [Workers -> Nat]
      /\ outbox \in [Workers -> Seq(Nat)] /\ pipe \in [Workers -> Seq(Frames)]
  BY DEF WorkerTypes
<1>3. pipe' \in [Workers -> Seq(Frames)] /\ pipe'[w] = p /\ \A v \in Workers \ {w} : pipe'[v] = pipe[v]
  BY <1>2 DEF Changed
<1>4. outbox' \in [Workers -> Seq(Nat)] /\ outbox'[w] = o /\ \A v \in Workers \ {w} : outbox'[v] = outbox[v]
  BY <1>2 DEF Changed
<1>5. task' \in [Workers -> Nat] /\ task'[w] = t /\ \A v \in Workers \ {w} : task'[v] = task[v]
  BY <1>2 DEF Changed
<1>6. worker' \in [Workers -> WorkerStates] /\ worker'[w] = s /\ \A v \in Workers \ {w} : worker'[v] = worker[v]
  BY <1>2 DEF Changed
<1>7. WorkerTypes'
  BY <1>1, <1>3, <1>4, <1>5, <1>6 DEF WorkerTypes
<1>8. ASSUME NEW v \in Workers
      PROVE  Fits(pipe'[v], outbox'[v], task'[v], worker'[v], v, openConns')
  <2>1. CASE v = w
    BY <1>3, <1>4, <1>5, <1>6, <2>1
  <2>2. CASE v # w
    BY <1>3, <1>4, <1>5, <1>6, <2>2 DEF FitsIn
  <2>3. QED
    BY <2>1, <2>2
<1>9. (\A v \in Workers : FitsIn(v))'
  BY <1>1, <1>8 DEF FitsIn
<1>10. Hands'[w] = Hand(p, o, t)
  BY <1>1, <1>3, <1>4, <1>5 DEF Hands, HandOf
<1>11. \A v \in Workers \ {w} : Hands'[v] = Hands[v]
  BY <1>1, <1>3, <1>4, <1>5 DEF Hands, HandOf
<1>12. Live' \in SUBSET Live /\ Live \in SUBSET Workers
  BY <1>1, <1>6 DEF Live
<1>13. QED
  BY <1>7, <1>9, <1>10, <1>11, <1>12

\* Nothing happens on the way to the main thread.
LEMMA WayStays ==
    ASSUME ReaderTypes, OnTheWay, batches' = batches, openConns' = openConns, suspects' = suspects,
           offering' = offering, frames' = frames, received' = received
    PROVE  ReaderTypes' /\ OnTheWay' /\ Elsewhere' = Elsewhere
<1>1. Workers' = Workers /\ BatchIds' = BatchIds /\ InFlight' = InFlight
  BY DEF Workers, BatchIds, InFlight
<1>2. Elsewhere' = Elsewhere
  BY <1>1 DEF Elsewhere
<1>3. QED
  BY <1>1, <1>2 DEF ReaderTypes, OnTheWay

\* Nor to the files.
LEMMA FilesStay ==
    ASSUME FileTypes, NoDoubleIngest, FilesOpen, outcome' = "run",
           batches' = batches, round' = round, received' = received,
           ingested' = ingested, errored' = errored, lost' = lost
    PROVE  FileTypes' /\ NoDoubleIngest' /\ AccountedFor' /\ FilesOpen'
<1>1. BatchIds' = BatchIds /\ FilesLost' = FilesLost
  BY DEF BatchIds, FilesLost
<1>2. QED
  BY <1>1 DEF FileTypes, NoDoubleIngest, AccountedFor, FilesOpen

\* A step that only moves what the workers have and the dispatch state.
LEMMA Carried ==
    ASSUME StageInv, Running, outcome' = "run",
           batches' = batches, round' = round, received' = received,
           ingested' = ingested, errored' = errored, lost' = lost,
           openConns' = openConns, suspects' = suspects, offering' = offering, frames' = frames,
           WorkerTypes', (\A v \in Workers : FitsIn(v))',
           Sound(disp', Workers, BatchIds, Elsewhere, Live', Hands'),
           \A v \in Workers : Len(disp'.assigned[v]) <= TasksAhead
    PROVE  StageInv'
<1>1. FileTypes' /\ NoDoubleIngest' /\ AccountedFor' /\ FilesOpen'
  BY FilesStay DEF StageInv, Running
<1>2. ReaderTypes' /\ OnTheWay' /\ Elsewhere' = Elsewhere
  BY WayStays DEF Running
<1>3. Workers' = Workers /\ BatchIds' = BatchIds
  BY DEF Workers, BatchIds
<1>4. QueueBound'
  BY <1>3 DEF QueueBound
<1>5. Sound(disp, Workers, BatchIds, Elsewhere, Live, Hands)'
  BY <1>2, <1>3
<1>6. QED
  BY <1>1, <1>2, <1>4, <1>5 DEF StageInv, Running

(***************************************************************************)
(* The steps of a worker process.                                          *)
(***************************************************************************)
\* The step of a worker, or of its reader, that leaves the rest alone.
Undisturbed ==
    /\ outcome' = "run" /\ batches' = batches /\ round' = round /\ received' = received
    /\ ingested' = ingested /\ errored' = errored /\ lost' = lost
    /\ openConns' = openConns /\ suspects' = suspects /\ offering' = offering /\ frames' = frames

\* A step in which the worker takes no task.
LEMMA WorkerWorks ==
    ASSUME StageInv, Running, NEW w \in Workers, Undisturbed, disp' = disp,
           NEW p \in Seq(Frames), NEW o \in Seq(Nat), NEW t \in Nat, NEW s \in WorkerStates,
           Changed(pipe', pipe, w, p), Changed(outbox', outbox, w, o),
           Changed(task', task, w, t), Changed(worker', worker, w, s),
           Fits(p, o, t, s, w, openConns), s \in Living => worker[w] \in Living,
           Hand(p, o, t) \subseteq HandOf(w)
    PROVE  StageInv'
<1>1. /\ outcome' = "run" /\ batches' = batches /\ round' = round /\ received' = received
      /\ ingested' = ingested /\ errored' = errored /\ lost' = lost
      /\ openConns' = openConns /\ suspects' = suspects /\ offering' = offering /\ frames' = frames
  BY DEF Undisturbed
<1>2. WorkerTypes /\ \A v \in Workers : FitsIn(v)
  BY DEF Running
<1>3. /\ WorkerTypes' /\ (\A v \in Workers : FitsIn(v))'
      /\ Hands'[w] = Hand(p, o, t) /\ \A v \in Workers \ {w} : Hands'[v] = Hands[v]
      /\ Live' \in SUBSET Live /\ Live \in SUBSET Workers
  BY <1>1, <1>2, HandsMove
<1>4. \A v \in Workers : Hands'[v] \subseteq Hands[v]
  <2>1. Hands[w] = HandOf(w)
    BY DEF Hands
  <2>2. QED
    BY <1>3, <2>1
<1>5. Sound(disp', Workers, BatchIds, Elsewhere, Live', Hands')
  <2>1. PICK e, l, h : e = disp' /\ l = Live' /\ h = Hands'
    OBVIOUS
  <2>2. Sound(disp, Workers, BatchIds, Elsewhere, Live, Hands)
    BY DEF Running
  <2>3. Sound(disp, Workers, BatchIds, Elsewhere, l, h)
    BY <1>3, <1>4, <2>1, <2>2, FewerHeld
  <2>4. QED
    BY <2>1, <2>3
<1>6. \A v \in Workers : Len(disp'.assigned[v]) <= TasksAhead
  BY DEF Running, QueueBound
<1>7. QED
  BY <1>1, <1>3, <1>5, <1>6, Carried

LEMMA WorkerSteps ==
    ASSUME StageInv, NEW w, InWorker(w), ParserStep(w) \/ SerializerStep(w) \/ WorkerFault(w)
    PROVE  StageInv'
<1>1. Running /\ w \in Workers /\ Undisturbed
  BY DEF StageInv, InWorker, Undisturbed, roundVars, resultVars
<1>2. /\ worker \in [Workers -> WorkerStates] /\ task \in [Workers -> Nat]
      /\ outbox \in [Workers -> Seq(Nat)] /\ pipe \in [Workers -> Seq(Frames)]
  BY <1>1 DEF Running, WorkerTypes
<1>3. PICK p, o, t, s : p = pipe[w] /\ o = outbox[w] /\ t = task[w] /\ s = worker[w]
  OBVIOUS
<1>4. p \in Seq(Frames) /\ o \in Seq(Nat) /\ t \in Nat /\ s \in WorkerStates
  BY <1>1, <1>2, <1>3
<1>5. Fits(p, o, t, s, w, openConns) /\ HandOf(w) = Hand(p, o, t)
  BY <1>1, <1>3 DEF Running, FitsIn, HandOf
<1>6. /\ pipe' = pipe => Changed(pipe', pipe, w, p)
      /\ outbox' = outbox => Changed(outbox', outbox, w, o)
      /\ task' = task => Changed(task', task, w, t)
      /\ worker' = worker => Changed(worker', worker, w, s)
  BY <1>1, <1>2, <1>3 DEF Changed
<1>7. /\ << >> \in Seq(Nat) /\ NoTask \in Nat /\ DoneFrame \in Frames /\ FailedFrame \in Frames
      /\ {"idle", "queueing", "exited", "dead"} \subseteq WorkerStates
  BY FrameIds DEF NoTask, WorkerStates
<1>8. "idle" \in Living /\ "queueing" \in Living /\ "exited" \notin Living /\ "dead" \notin Living
  BY DEF Living
<1>9. Alive(w) <=> s \in Living
  BY <1>3 DEF Alive, Living
<1>10. CASE WorkerInit(w) /\ disp' = disp
  <2>1. s = "init" /\ Changed(worker', worker, w, "idle") /\ Changed(pipe', pipe, w, p)
        /\ Changed(outbox', outbox, w, o) /\ Changed(task', task, w, t)
    BY <1>3, <1>6, <1>10 DEF WorkerInit, Changed
  <2>2. Fits(p, o, t, "idle", w, openConns) /\ s \in Living
    BY <1>5, <2>1, StateChanges DEF Living
  <2>3. QED
    BY <1>1, <1>3, <1>4, <1>5, <1>7, <1>10, <2>1, <2>2, WorkerWorks
<1>11. CASE WorkerParse(w) /\ disp' = disp
  <2>1. s = "parsing" /\ Changed(worker', worker, w, "queueing") /\ Changed(pipe', pipe, w, p)
        /\ Changed(outbox', outbox, w, o) /\ Changed(task', task, w, t)
    BY <1>3, <1>6, <1>11 DEF WorkerParse, Changed
  <2>2. Fits(p, o, t, "queueing", w, openConns) /\ s \in Living
    BY <1>5, <2>1, StateChanges DEF Living
  <2>3. QED
    BY <1>1, <1>3, <1>4, <1>5, <1>7, <1>11, <2>1, <2>2, WorkerWorks
<1>12. CASE Dies(w) /\ disp' = disp
  <2>1. /\ Changed(worker', worker, w, "dead") /\ Changed(pipe', pipe, w, p)
        /\ Changed(outbox', outbox, w, << >>) /\ Changed(task', task, w, NoTask)
    BY <1>6, <1>12 DEF Dies, Changed
  <2>2. Fits(p, << >>, NoTask, "dead", w, openConns) /\ Hand(p, << >>, NoTask) \subseteq Hand(p, o, t)
    BY <1>5, StateChanges
  <2>3. QED
    BY <1>1, <1>3, <1>4, <1>5, <1>7, <1>8, <1>12, <2>1, <2>2, WorkerWorks
<1>13. CASE WorkerQueue(w) /\ disp' = disp
  <2>1. /\ s = "queueing" /\ Changed(worker', worker, w, "idle") /\ Changed(pipe', pipe, w, p)
        /\ Changed(outbox', outbox, w, Append(o, t)) /\ Changed(task', task, w, NoTask)
    BY <1>3, <1>6, <1>13 DEF WorkerQueue, Changed
  <2>2. /\ Append(o, t) \in Seq(Nat) /\ Fits(p, Append(o, t), NoTask, "idle", w, openConns)
        /\ Hand(p, Append(o, t), NoTask) = Hand(p, o, t) /\ s \in Living
    BY <1>4, <1>5, <2>1, TaskQueued DEF Living
  <2>3. PICK q : q = Append(o, t)
    OBVIOUS
  <2>4. QED
    BY <1>1, <1>3, <1>4, <1>5, <1>7, <1>13, <2>1, <2>2, <2>3, WorkerWorks
<1>14. CASE SerializerSend(w) /\ disp' = disp
  <2>1. PICK x, q, r : x = Result(Head(o)) /\ q = Append(p, x) /\ r = Tail(o)
    OBVIOUS
  <2>2. /\ s \in Living /\ o # << >> /\ Changed(worker', worker, w, s) /\ Changed(pipe', pipe, w, q)
        /\ Changed(outbox', outbox, w, r) /\ Changed(task', task, w, t)
    BY <1>3, <1>6, <1>9, <1>14, <2>1 DEF SerializerSend, Send, Changed, Result
  <2>3. /\ q \in Seq(Frames) /\ r \in Seq(Nat) /\ Fits(q, r, t, s, w, openConns)
        /\ Hand(q, r, t) = Hand(p, o, t)
    BY <1>4, <1>5, <2>1, <2>2, ResultSent
  <2>4. QED
    BY <1>1, <1>3, <1>4, <1>5, <1>14, <2>2, <2>3, WorkerWorks
<1>15. CASE (WorkerFinish(w) \/ WorkerInitFails(w)) /\ disp' = disp
  <2>1. PICK x \in {DoneFrame, FailedFrame} :
          /\ s \in {"init", "stopping"} /\ o = << >>
          /\ Changed(worker', worker, w, "exited") /\ Changed(pipe', pipe, w, Append(p, x))
          /\ Changed(outbox', outbox, w, o) /\ Changed(task', task, w, t)
    <3>1. CASE WorkerFinish(w)
      BY <1>3, <1>6, <3>1 DEF WorkerFinish, Send, Changed, DoneFrame
    <3>2. CASE WorkerInitFails(w)
      BY <1>3, <1>5, <1>6, <3>2 DEF WorkerInitFails, Send, Changed, FailedFrame, Fits
    <3>3. QED
      BY <1>15, <3>1, <3>2
  <2>2. PICK q : q = Append(p, x)
    OBVIOUS
  <2>3. q \in Seq(Frames) /\ Fits(q, o, t, "exited", w, openConns) /\ Hand(q, o, t) = Hand(p, o, t)
    <3>1. s \in {"init", "stopping"} /\ (s = "stopping" => o = << >>) /\ x \in {DoneFrame, FailedFrame}
      BY <2>1
    <3>2. /\ Append(p, x) \in Seq(Frames) /\ Fits(Append(p, x), o, t, "exited", w, openConns)
          /\ Hand(Append(p, x), o, t) = Hand(p, o, t)
      BY <1>4, <1>5, <3>1, LastFrame
    <3>3. QED
      BY <2>2, <3>2
  <2>4. QED
    BY <1>1, <1>3, <1>4, <1>5, <1>7, <1>8, <1>15, <2>1, <2>2, <2>3, WorkerWorks
<1>16. CASE WorkerRecv(w)
  <2>1. PICK b, u : b = Head(disp.tasks[w]) /\ u = IF b = STOP THEN "stopping" ELSE "parsing"
    OBVIOUS
  <2>2. /\ s = "idle" /\ disp.tasks[w] # << >> /\ disp' = Taken(disp, w)
        /\ Changed(worker', worker, w, u) /\ Changed(pipe', pipe, w, p)
        /\ Changed(outbox', outbox, w, o) /\ Changed(task', task, w, b)
    BY <1>3, <1>6, <1>16, <2>1 DEF WorkerRecv, Changed, Taken
  <2>3. /\ outcome' = "run" /\ batches' = batches /\ round' = round /\ received' = received
        /\ ingested' = ingested /\ errored' = errored /\ lost' = lost
        /\ openConns' = openConns /\ suspects' = suspects /\ offering' = offering /\ frames' = frames
    BY <1>1 DEF Undisturbed
  <2>4. w \in Live /\ Live \in SUBSET Workers /\ s \in Living /\ u \in Living /\ u \in WorkerStates
    BY <1>1, <1>3, <2>1, <2>2 DEF Live, Living, WorkerStates
  <2>5. Sound(disp, Workers, BatchIds, Elsewhere, Live, Hands) /\ Hands[w] = Hand(p, o, t)
    BY <1>1, <1>5 DEF Running, Hands
  <2>6. BatchIds \in SUBSET (Nat \ {0})
    BY <1>1 DEF BatchIds
  <2>7. PICK h : h = [v \in Workers |-> IF v = w THEN Hands[w] \cup ({b} \ {NoTask}) ELSE Hands[v]]
    OBVIOUS
  <2>8. h[w] = Hands[w] \cup ({b} \ {NoTask}) /\ \A v \in Workers \ {w} : h[v] = Hands[v]
    BY <1>1, <2>7
  <2>9. PICK e : e = disp'
    OBVIOUS
  <2>10. /\ Sound(e, Workers, BatchIds, Elsewhere, Live, h)
         /\ b \notin Hands[w] /\ b \in Nat /\ e.assigned = disp.assigned
    <3>1. e = Taken(disp, w)
      BY <2>2, <2>9
    <3>2. PICK d, W, B, E, L, g : d = disp /\ W = Workers /\ B = BatchIds /\ E = Elsewhere /\ L = Live /\ g = Hands
      OBVIOUS
    <3>3. /\ B \in SUBSET (Nat \ {0}) /\ L \in SUBSET W /\ Sound(d, W, B, E, L, g) /\ w \in L
          /\ d.tasks[w] # << >> /\ b = Head(d.tasks[w]) /\ e = Taken(d, w)
      BY <2>1, <2>2, <2>4, <2>5, <2>6, <3>1, <3>2
    <3>4. Gains(h, g, W, w, b)
      BY <2>8, <3>2 DEF Gains
    <3>5. Sound(e, W, B, E, L, h) /\ b \notin g[w] /\ b \in Nat /\ e.assigned = d.assigned
      <4>1. Sound(e, W, B, E, L, h)
        BY <3>3, <3>4, TaskTaken
      <4>2. b \notin g[w]
        BY <3>3, <3>4, <4>1, TaskTaken
      <4>3. b \in Nat
        BY <3>3, <3>4, <4>1, TaskTaken
      <4>4. e.assigned = d.assigned
        BY <3>3, <3>4, <4>1, TaskTaken
      <4>5. QED
        BY <4>1, <4>2, <4>3, <4>4
    <3>6. QED
      BY <3>2, <3>5
  <2>11. Fits(p, o, b, u, w, openConns) /\ Hand(p, o, b) = Hand(p, o, t) \cup ({b} \ {NoTask})
    BY <1>4, <1>5, <2>1, <2>2, <2>5, <2>10, TaskReceived
  <2>12. /\ WorkerTypes' /\ (\A v \in Workers : FitsIn(v))'
         /\ Hands'[w] = Hand(p, o, b) /\ \A v \in Workers \ {w} : Hands'[v] = Hands[v]
         /\ Live' \in SUBSET Live
    <3>1. WorkerTypes /\ \A v \in Workers : FitsIn(v)
      BY <1>1 DEF Running
    <3>2. b \in Nat /\ u \in WorkerStates /\ Fits(p, o, b, u, w, openConns) /\ (u \in Living => worker[w] \in Living)
      BY <1>3, <2>4, <2>10, <2>11
    <3>3. batches' = batches /\ openConns' = openConns
      BY <2>3
    <3>4. QED
      BY <1>1, <1>4, <2>2, <3>1, <3>2, <3>3, HandsMove
  <2>13. Sound(disp', Workers, BatchIds, Elsewhere, Live', Hands')
    <3>1. PICK l, g : l = Live' /\ g = Hands'
      OBVIOUS
    <3>2. \A v \in Workers : g[v] \subseteq h[v]
      BY <2>5, <2>8, <2>11, <2>12, <3>1
    <3>3. l \in SUBSET Live /\ Live \in SUBSET Workers
      BY <2>4, <2>12, <3>1
    <3>4. Sound(e, Workers, BatchIds, Elsewhere, l, g)
      BY <2>10, <3>2, <3>3, FewerHeld
    <3>5. QED
      BY <2>9, <3>1, <3>4
  <2>14. \A v \in Workers : Len(disp'.assigned[v]) <= TasksAhead
    BY <1>1, <2>9, <2>10 DEF Running, QueueBound
  <2>15. QED
    BY <1>1, <2>3, <2>12, <2>13, <2>14, Carried
<1>17. QED
  BY <1>10, <1>11, <1>12, <1>13, <1>14, <1>15, <1>16
     DEF ParserStep, SerializerStep, WorkerFault, WorkerKilled, WorkerCrash

(***************************************************************************)
(* The steps of the reader.                                                *)
(***************************************************************************)
\* A frame is read and nothing else happens.
LEMMA FrameGone ==
    ASSUME StageInv, Running, NEW w \in Workers, Undisturbed, disp' = disp, pipe[w] # << >>,
           pipe' = [pipe EXCEPT ![w] = Tail(pipe[w])], worker' = worker, task' = task, outbox' = outbox
    PROVE  StageInv'
<1>1. /\ worker \in [Workers -> WorkerStates] /\ task \in [Workers -> Nat]
      /\ outbox \in [Workers -> Seq(Nat)] /\ pipe \in [Workers -> Seq(Frames)]
  BY DEF Running, WorkerTypes
<1>2. PICK p, o, t, s, q : p = pipe[w] /\ o = outbox[w] /\ t = task[w] /\ s = worker[w] /\ q = Tail(p)
  OBVIOUS
<1>3. p \in Seq(Frames) /\ p # << >> /\ o \in Seq(Nat) /\ t \in Nat /\ s \in WorkerStates
  BY <1>1, <1>2
<1>4. Fits(p, o, t, s, w, openConns) /\ HandOf(w) = Hand(p, o, t)
  BY <1>2 DEF Running, FitsIn, HandOf
<1>5. q \in Seq(Frames) /\ Fits(q, o, t, s, w, openConns) /\ Hand(q, o, t) \subseteq Hand(p, o, t)
  BY <1>2, <1>3, <1>4, FrameRead
<1>6. /\ Changed(pipe', pipe, w, q) /\ Changed(outbox', outbox, w, o)
      /\ Changed(task', task, w, t) /\ Changed(worker', worker, w, s)
  BY <1>1, <1>2 DEF Changed
<1>7. QED
  BY <1>2, <1>3, <1>4, <1>5, <1>6, WorkerWorks

\* A result is offered to the main thread.
LEMMA ResultOffered ==
    ASSUME ReaderTypes, OnTheWay, offering = Nothing, NEW b \in BatchIds \ Elsewhere,
           batches' = batches, openConns' = openConns, suspects' = suspects, frames' = frames,
           received' = received, offering' = Result(b)
    PROVE  ReaderTypes' /\ OnTheWay' /\ Elsewhere' = Elsewhere \cup {b}
<1>1. Workers' = Workers /\ BatchIds' = BatchIds
  BY DEF Workers, BatchIds
<1>2. InFlight = Carries(frames, Nothing) /\ InFlight' = Carries(frames, Result(b))
  BY DEF InFlight, Carries
<1>3. b \in Nat /\ frames \in Seq(Results \cup {STAGE_END})
  BY DEF BatchIds, ReaderTypes
<1>4. Result(b) \in Results /\ Result(b).batch = b
  BY <1>3, FrameIds
<1>5. b \notin Carries(frames, Nothing)
  BY <1>2 DEF Elsewhere
<1>6. InFlight' = InFlight \cup {b} /\ Result(b) \notin Range(frames)
  BY <1>2, <1>3, <1>4, <1>5, OfferMade
<1>7. STAGE_END \notin Range(frames)
  BY FrameIds DEF OnTheWay
<1>8. Elsewhere' = Elsewhere \cup {b}
  BY <1>6 DEF Elsewhere
<1>9. ReaderTypes'
  BY <1>1, <1>4 DEF ReaderTypes
<1>10. OnTheWay'
  <2>1. /\ Range(suspects) \cap (InFlight' \cup received) = {} /\ InFlight' \cap received = {}
        /\ Elsewhere' \subseteq BatchIds
    BY <1>6, <1>8 DEF OnTheWay, Elsewhere
  <2>2. QED
    BY <1>1, <1>6, <1>7, <2>1 DEF OnTheWay
<1>11. QED
  BY <1>8, <1>9, <1>10

LEMMA ResultRead ==
    ASSUME StageInv, Running, NEW w \in Workers, outcome' = "run", ReadResult(w),
           UNCHANGED <<roundVars, frames, workerVars, resultVars>>
    PROVE  StageInv'
<1>1. /\ batches' = batches /\ round' = round /\ received' = received
      /\ ingested' = ingested /\ errored' = errored /\ lost' = lost
      /\ openConns' = openConns /\ suspects' = suspects /\ frames' = frames
      /\ worker' = worker /\ task' = task /\ outbox' = outbox
  BY DEF ReadResult, roundVars, workerVars, resultVars
<1>2. /\ worker \in [Workers -> WorkerStates] /\ task \in [Workers -> Nat]
      /\ outbox \in [Workers -> Seq(Nat)] /\ pipe \in [Workers -> Seq(Frames)]
  BY DEF Running, WorkerTypes
<1>3. PICK p, o, t, s, q : p = pipe[w] /\ o = outbox[w] /\ t = task[w] /\ s = worker[w] /\ q = Tail(p)
  OBVIOUS
<1>4. PICK b : b = Head(p).batch
  OBVIOUS
<1>5. /\ p \in Seq(Frames) /\ p # << >> /\ o \in Seq(Nat) /\ t \in Nat /\ s \in WorkerStates
      /\ Head(p).tag = "RESULT" /\ offering = Nothing
  BY <1>2, <1>3 DEF ReadResult, CanRead
<1>6. Fits(p, o, t, s, w, openConns) /\ Hands[w] = Hand(p, o, t)
  BY <1>3 DEF Running, FitsIn, HandOf, Hands
<1>7. /\ q \in Seq(Frames) /\ Fits(q, o, t, s, w, openConns) /\ Hand(q, o, t) \subseteq Hand(p, o, t)
      /\ Head(p) \in Results /\ b \in Hand(p, o, t) /\ b \notin Hand(q, o, t)
  BY <1>3, <1>4, <1>5, <1>6, FrameRead
<1>8. /\ Changed(pipe', pipe, w, q) /\ Changed(outbox', outbox, w, o)
      /\ Changed(task', task, w, t) /\ Changed(worker', worker, w, s)
  BY <1>1, <1>2, <1>3 DEF Changed, ReadResult, Read
<1>9. /\ WorkerTypes' /\ (\A v \in Workers : FitsIn(v))'
      /\ Hands'[w] = Hand(q, o, t) /\ \A v \in Workers \ {w} : Hands'[v] = Hands[v]
      /\ Live' \in SUBSET Live /\ Live \in SUBSET Workers
  <2>1. WorkerTypes /\ \A v \in Workers : FitsIn(v)
    BY DEF Running
  <2>2. batches' = batches /\ openConns' = openConns /\ (s \in Living => worker[w] \in Living)
    BY <1>1, <1>3
  <2>3. QED
    BY <1>5, <1>7, <1>8, <2>1, <2>2, HandsMove
<1>10. PICK d, B, E, L, g, h, m, l, W : /\ d = disp /\ B = BatchIds /\ E = Elsewhere /\ L = Live /\ g = Hands
                                       /\ h = Hands' /\ m = Returned(disp, w, b) /\ l = Live' /\ W = Workers
  OBVIOUS
<1>11. /\ B \in SUBSET (Nat \ {0}) /\ L \in SUBSET W /\ l \in SUBSET L /\ Sound(d, W, B, E, L, g) /\ w \in W
       /\ m = Returned(d, w, b)
  BY <1>9, <1>10 DEF Running, BatchIds
<1>12. Loses(h, g, W, w, b)
  BY <1>6, <1>7, <1>9, <1>10 DEF Loses
<1>13. Sound(m, W, B, Grown(E, {b}), L, h)
  BY <1>11, <1>12, BatchReturned
<1>14. b \in B /\ b \notin E /\ Len(m.assigned[w]) = Len(d.assigned[w]) - 1 /\ Others(m, d, W, w)
  <2>1. b \in B /\ b \notin E
    BY <1>11, <1>12, <1>13, BatchReturned
  <2>2. Len(m.assigned[w]) = Len(d.assigned[w]) - 1
    BY <1>11, <1>12, <1>13, BatchReturned
  <2>3. Others(m, d, W, w)
    BY <1>11, <1>12, <1>13, BatchReturned
  <2>4. QED
    BY <2>1, <2>2, <2>3
<1>15. Sound(m, W, B, E \cup {b}, l, h)
  <2>1. \A v \in W : h[v] \subseteq h[v]
    OBVIOUS
  <2>2. QED
    BY <1>11, <1>13, <2>1, FewerHeld DEF Grown
<1>16. PICK n : n = disp'
  OBVIOUS
<1>17. n = Dispatch(m, w)
  BY <1>3, <1>4, <1>10, <1>16 DEF ReadResult, Returned
<1>18. l \in SUBSET W
  BY <1>11
<1>19. Sound(n, W, B, E \cup {b}, l, h)
  BY <1>11, <1>15, <1>17, <1>18, DispatchSound
<1>20. Len(n.assigned[w]) <= Len(m.assigned[w]) + 1 /\ Others(n, m, W, w)
  <2>1. Len(n.assigned[w]) <= Len(m.assigned[w]) + 1
    BY <1>11, <1>15, <1>17, <1>18, <1>19, DispatchSound
  <2>2. Others(n, m, W, w)
    BY <1>11, <1>15, <1>17, <1>18, <1>19, DispatchSound
  <2>3. QED
    BY <2>1, <2>2
<1>21. \A v \in W : Len(n.assigned[v]) <= TasksAhead
  <2>1. \A v \in W : Len(d.assigned[v]) <= TasksAhead
    BY <1>10 DEF Running, QueueBound
  <2>2. d.assigned[w] \in Seq(Nat) /\ n.assigned[w] \in Seq(Nat)
    BY <1>11, <1>19 DEF Sound, Disps
  <2>3. Len(n.assigned[w]) <= TasksAhead
    <3>1. PICK x, y, z : x = Len(d.assigned[w]) /\ y = Len(m.assigned[w]) /\ z = Len(n.assigned[w])
      OBVIOUS
    <3>2. x \in Nat /\ z \in Nat /\ y = x - 1 /\ z <= y + 1 /\ x <= TasksAhead
      BY <1>11, <1>14, <1>20, <2>1, <2>2, <3>1
    <3>3. QED
      BY <3>1, <3>2, StageAssumptions
  <2>4. QED
    BY <1>14, <1>20, <2>1, <2>3 DEF Others
<1>22. ReaderTypes' /\ OnTheWay' /\ Elsewhere' = Elsewhere \cup {b}
  <2>1. ReaderTypes /\ OnTheWay
    BY DEF Running
  <2>2. b \in BatchIds \ Elsewhere
    BY <1>10, <1>14
  <2>3. offering' = Result(b)
    BY <1>3, <1>4, <1>7, FrameIds DEF ReadResult
  <2>4. QED
    BY <1>1, <1>5, <2>1, <2>2, <2>3, ResultOffered
<1>23. Workers' = Workers /\ BatchIds' = BatchIds
  BY <1>1 DEF Workers, BatchIds
<1>24. Sound(disp, Workers, BatchIds, Elsewhere, Live, Hands)'
  BY <1>10, <1>16, <1>19, <1>22, <1>23
<1>25. QueueBound'
  BY <1>10, <1>16, <1>21, <1>23 DEF QueueBound
<1>26. FileTypes' /\ NoDoubleIngest' /\ AccountedFor' /\ FilesOpen'
  BY <1>1, FilesStay DEF StageInv, Running
<1>27. QED
  BY <1>9, <1>22, <1>24, <1>25, <1>26 DEF StageInv, Running

LEMMA SeqOfMore ==
    ASSUME NEW S, NEW T, S \subseteq T, NEW s \in Seq(S)
    PROVE  s \in Seq(T)
  OBVIOUS

\* A batch is blamed for the death of its worker.
LEMMA SuspectAdded ==
    ASSUME ReaderTypes, OnTheWay, batches' = batches, openConns' \subseteq openConns, offering' = offering,
           frames' = frames, received' = received,
           NEW blamed, blamed \subseteq BatchIds, blamed \cap Elsewhere = {},
           \/ suspects' = suspects /\ blamed = {}
           \/ \E b \in blamed : suspects' = Append(suspects, b) /\ blamed = {b}
    PROVE  ReaderTypes' /\ OnTheWay' /\ Elsewhere' = Grown(Elsewhere, blamed)
<1>1. Workers' = Workers /\ BatchIds' = BatchIds /\ InFlight' = InFlight
  BY DEF Workers, BatchIds, InFlight
<1>2. suspects \in Seq(Nat) /\ IsInjective(suspects)
  BY DEF ReaderTypes, OnTheWay
<1>3. PICK q : q = suspects'
  OBVIOUS
<1>4. q \in Seq(Nat) /\ IsInjective(q) /\ Range(q) = Range(suspects) \cup blamed
  <2>1. CASE q = suspects /\ blamed = {}
    BY <1>2, <2>1
  <2>2. ASSUME NEW b \in blamed, q = Append(suspects, b), blamed = {b}
        PROVE  q \in Seq(Nat) /\ IsInjective(q) /\ Range(q) = Range(suspects) \cup blamed
    <3>1. b \in Nat /\ b \notin Range(suspects)
      BY DEF BatchIds, Elsewhere
    <3>2. QED
      BY <1>2, <2>2, <3>1, Appended
  <2>3. QED
    BY <1>3, <2>1, <2>2
<1>5. Elsewhere' = Elsewhere \cup blamed
  BY <1>1, <1>3, <1>4 DEF Elsewhere
<1>6. ReaderTypes'
  BY <1>1, <1>3, <1>4 DEF ReaderTypes
<1>7. OnTheWay'
  <2>1. Range(suspects)' \cap (InFlight \cup received) = {} /\ Elsewhere' \subseteq BatchIds
    BY <1>3, <1>4, <1>5 DEF OnTheWay, Elsewhere
  <2>2. QED
    BY <1>1, <1>3, <1>4, <2>1 DEF OnTheWay
<1>8. QED
  BY <1>5, <1>6, <1>7 DEF Grown

\* A worker is gone: its connection is closed, the others have what they had.
LEMMA OneLess ==
    ASSUME WorkerTypes, \A v \in Workers : FitsIn(v), batches' = batches, pipe' = pipe,
           worker' = worker, task' = task, outbox' = outbox,
           NEW w \in Workers, openConns' = openConns \ {w}, pipe[w] = << >>, worker[w] \in {"exited", "dead"}
    PROVE  /\ WorkerTypes' /\ (\A v \in Workers : FitsIn(v))' /\ Hands' = Hands /\ Live' = Live
           /\ Hands[w] = {} /\ w \notin Live /\ Live \in SUBSET Workers
<1>1. Workers' = Workers
  BY DEF Workers
<1>2. WorkerTypes'
  BY <1>1 DEF WorkerTypes
<1>3. Hands' = Hands /\ Live' = Live
  BY <1>1 DEF Hands, HandOf, Live
<1>4. worker[w] \notin Living
  BY DEF Living
<1>5. ASSUME NEW v \in Workers
      PROVE  Fits(pipe[v], outbox[v], task[v], worker[v], v, openConns \ {w})
  <2>1. Fits(pipe[v], outbox[v], task[v], worker[v], v, openConns)
    BY DEF FitsIn
  <2>2. w = v => pipe[v] = << >> /\ worker[v] \notin Living
    BY <1>4
  <2>3. QED
    BY <2>1, <2>2, ConnectionClosed
<1>6. (\A v \in Workers : FitsIn(v))'
  BY <1>1, <1>5 DEF FitsIn
<1>7. Hands[w] = {}
  <2>1. Fits(<< >>, outbox[w], task[w], worker[w], w, openConns)
    BY DEF FitsIn
  <2>2. outbox[w] = << >> /\ task[w] = NoTask
    BY <2>1 DEF Fits
  <2>3. Range(<< >>) = {} /\ Ids({}) = {}
    BY DEF Range, Ids
  <2>4. Hand(<< >>, << >>, NoTask) = {}
    BY <2>3 DEF Hand
  <2>5. QED
    BY <2>2, <2>4 DEF Hands, HandOf
<1>8. w \notin Live /\ Live \in SUBSET Workers
  BY <1>4 DEF Live
<1>9. QED
  BY <1>2, <1>3, <1>6, <1>7, <1>8

LEMMA EndOfPipe ==
    ASSUME StageInv, Running, NEW w \in Workers, outcome' = "run", ReadEOF(w),
           UNCHANGED <<roundVars, frames, workerVars, resultVars>>
    PROVE  StageInv'
<1>1. /\ batches' = batches /\ round' = round /\ received' = received
      /\ ingested' = ingested /\ errored' = errored /\ lost' = lost
      /\ offering' = offering /\ frames' = frames
      /\ worker' = worker /\ task' = task /\ outbox' = outbox /\ pipe' = pipe
      /\ openConns' = openConns \ {w}
  BY DEF ReadEOF, roundVars, workerVars, resultVars
<1>2. /\ WorkerTypes' /\ (\A v \in Workers : FitsIn(v))' /\ Hands' = Hands /\ Live' = Live
      /\ Hands[w] = {} /\ w \notin Live /\ Live \in SUBSET Workers
  <2>1. WorkerTypes /\ (\A v \in Workers : FitsIn(v)) /\ pipe[w] = << >> /\ worker[w] \in {"exited", "dead"}
    BY DEF Running, ReadEOF
  <2>2. QED
    BY <1>1, <2>1, OneLess
<1>3. Workers' = Workers /\ BatchIds' = BatchIds
  BY <1>1 DEF Workers, BatchIds
<1>4. FileTypes' /\ NoDoubleIngest' /\ AccountedFor' /\ FilesOpen'
  BY <1>1, FilesStay DEF StageInv, Running
<1>5. PICK d, B, E, L, g, W, n : /\ d = disp /\ B = BatchIds /\ E = Elsewhere /\ L = Live /\ g = Hands
                                 /\ W = Workers /\ n = disp'
  OBVIOUS
<1>6. PICK u, x : u = d.assigned[w] /\ x = (w \notin doneWorkers /\ u # << >> /\ w \notin initFailed)
  OBVIOUS
<1>7. /\ B \in SUBSET (Nat \ {0}) /\ L \in SUBSET W /\ Sound(d, W, B, E, L, g) /\ w \in W /\ w \notin L
      /\ g[w] = {} /\ u \in Seq(Nat)
  BY <1>2, <1>5, <1>6 DEF Running, BatchIds, Sound, Disps
<1>8. PICK y, blamed : /\ y = IF x THEN Tail(u) ELSE u
                       /\ blamed = IF x THEN {Head(u)} ELSE {}
  OBVIOUS
<1>9. /\ Blames(d, w, y, blamed)
      /\ (suspects' = suspects /\ blamed = {}) \/ (\E b \in blamed : suspects' = Append(suspects, b) /\ blamed = {b})
  <2>1. suspects' = IF x THEN Append(suspects, Head(u)) ELSE suspects
    BY <1>5, <1>6 DEF ReadEOF
  <2>2. QED
    BY <1>6, <1>8, <2>1 DEF Blames
<1>10. PICK m, below : m = GiveBack(d, w, y) /\ below = BelowDepth(openConns')
  OBVIOUS
<1>11. n = IF w \notin doneWorkers /\ u # << >> THEN DispatchAll(m, InOrder(below)) ELSE d
  BY <1>5, <1>6, <1>8, <1>10 DEF ReadEOF
<1>12. /\ Sound(m, W, B, Grown(E, blamed), L, g)
       /\ blamed \subseteq B \ E
       /\ Len(m.assigned[w]) = 0 /\ Others(m, d, W, w)
  <2>1. Blames(d, w, y, blamed) /\ EmptyHands(g, w) /\ m = GiveBack(d, w, y)
    BY <1>7, <1>9, <1>10 DEF EmptyHands
  <2>2. /\ B \in SUBSET (Nat \ {0}) /\ L \in SUBSET W /\ Sound(d, W, B, E, L, g) /\ w \in W /\ w \notin L
    BY <1>7
  <2>3. GivenBack(m, d, W, B, E, L, g, w, blamed)
    BY <2>1, <2>2, BatchesGivenBack
  <2>4. QED
    BY <2>3 DEF GivenBack
<1>13. blamed \subseteq B \ E /\ Len(m.assigned[w]) = 0 /\ Others(m, d, W, w)
  BY <1>12
<1>14. ReaderTypes' /\ OnTheWay' /\ Elsewhere' = Grown(E, blamed)
  <2>1. ReaderTypes /\ OnTheWay /\ openConns' \subseteq openConns
    BY <1>1 DEF Running
  <2>2. blamed \subseteq BatchIds /\ blamed \cap Elsewhere = {}
    BY <1>5, <1>13
  <2>3. QED
    BY <1>1, <1>5, <1>9, <2>1, <2>2, SuspectAdded
<1>15. \A v \in W : Len(d.assigned[v]) <= TasksAhead /\ Len(d.assigned[v]) \in Nat
  BY <1>5, <1>7 DEF Running, QueueBound, Sound, Disps
<1>16. Sound(n, W, B, Grown(E, blamed), L, g) /\ \A v \in W : Len(n.assigned[v]) <= TasksAhead
  <2>1. CASE w \notin doneWorkers /\ u # << >>
    <3>1. PICK ws : ws = InOrder(below)
      OBVIOUS
    <3>2. below \in SUBSET (1..NumWorkers) /\ below \subseteq W /\ w \notin below
          /\ \A v \in below : Len(d.assigned[v]) < TasksAhead
      <4>1. Workers \subseteq 1..NumWorkers
        BY ProcsOf DEF Workers, StageInv, FileTypes
      <4>2. QED
        BY <1>1, <1>5, <1>10, <4>1 DEF BelowDepth, Running, ReaderTypes
    <3>3. ws \in Seq(below) /\ IsInjective(ws) /\ Range(ws) = below
      BY <3>1, <3>2, Ordered
    <3>4. ws \in Seq(W)
      BY <3>2, <3>3, SeqOfMore
    <3>5. n = DispatchAll(m, ws)
      BY <1>11, <2>1, <3>1
    <3>6. Sound(DispatchAll(m, ws), W, B, Grown(E, blamed), L, g)
      BY <1>7, <1>12, <3>3, <3>4, DispatchAllSound
    <3>7. OneMore(DispatchAll(m, ws), m, W, ws)
      BY <1>7, <1>12, <3>3, <3>4, <3>6, DispatchAllSound
    <3>8. \A v \in W : Len(n.assigned[v]) \in Nat
      BY <3>5, <3>6 DEF Sound, Disps
    <3>9. ASSUME NEW v \in W PROVE Len(n.assigned[v]) <= TasksAhead
      <4>1. Len(n.assigned[v]) <= Len(m.assigned[v]) + (IF v \in below THEN 1 ELSE 0)
        BY <3>3, <3>5, <3>7 DEF OneMore
      <4>2. PICK a, b, c : a = Len(d.assigned[v]) /\ b = Len(m.assigned[v]) /\ c = Len(n.assigned[v])
        OBVIOUS
      <4>3. /\ a \in Nat /\ c \in Nat /\ a <= TasksAhead /\ TasksAhead \in Nat \ {0}
            /\ v = w => b = 0 /\ v \notin below
            /\ v # w => b = a
            /\ v \in below => a < TasksAhead
            /\ c <= b + (IF v \in below THEN 1 ELSE 0)
        BY <1>13, <1>15, <3>2, <3>8, <4>1, <4>2, StageAssumptions DEF Others
      <4>4. CASE v = w
        <5>1. b = 0 /\ c <= b + 0
          BY <4>3, <4>4
        <5>2. QED
          BY <4>2, <4>3, <5>1
      <4>5. CASE v # w /\ v \in below
        <5>1. b = a /\ a < TasksAhead /\ c <= b + 1
          BY <4>3, <4>5
        <5>2. QED
          BY <4>2, <4>3, <5>1
      <4>6. CASE v # w /\ v \notin below
        <5>1. b = a /\ c <= b + 0
          BY <4>3, <4>6
        <5>2. QED
          BY <4>2, <4>3, <5>1
      <4>7. QED
        BY <4>4, <4>5, <4>6
    <3>10. QED
      BY <3>5, <3>6, <3>9
  <2>2. CASE ~(w \notin doneWorkers /\ u # << >>)
    <3>1. n = d /\ blamed = {}
      BY <1>6, <1>8, <1>11, <2>2
    <3>2. Grown(E, blamed) = E
      BY <3>1 DEF Grown
    <3>3. QED
      BY <1>7, <1>15, <3>1, <3>2
  <2>3. QED
    BY <2>1, <2>2
<1>17. Sound(disp, Workers, BatchIds, Elsewhere, Live, Hands)'
  BY <1>2, <1>3, <1>5, <1>14, <1>16
<1>18. QueueBound'
  BY <1>3, <1>5, <1>16 DEF QueueBound
<1>19. QED
  BY <1>1, <1>2, <1>4, <1>14, <1>17, <1>18 DEF StageInv, Running

\* The workers stay as they are, and every batch where it is.
LEMMA StaffStays ==
    ASSUME Running, batches' = batches, openConns' = openConns, disp' = disp, Elsewhere' = Elsewhere,
           worker' = worker, task' = task, outbox' = outbox, pipe' = pipe
    PROVE  /\ WorkerTypes' /\ (\A v \in Workers : FitsIn(v))' /\ QueueBound'
           /\ Sound(disp, Workers, BatchIds, Elsewhere, Live, Hands)'
<1>1. Workers' = Workers /\ BatchIds' = BatchIds
  BY DEF Workers, BatchIds
<1>2. Hands' = Hands /\ Live' = Live
  BY <1>1 DEF Hands, HandOf, Live
<1>3. WorkerTypes' /\ QueueBound' /\ (\A v \in Workers : FitsIn(v))'
  BY <1>1 DEF Running, WorkerTypes, QueueBound, FitsIn
<1>4. Sound(disp, Workers, BatchIds, Elsewhere, Live, Hands)'
  BY <1>1, <1>2 DEF Running
<1>5. QED
  BY <1>3, <1>4

LEMMA OfferSteps ==
    ASSUME StageInv, ReaderOffer
    PROVE  StageInv'
<1>1. /\ Running /\ batches' = batches /\ openConns' = openConns /\ suspects' = suspects
      /\ received' = received /\ round' = round /\ outcome' = "run" /\ disp' = disp
      /\ ingested' = ingested /\ errored' = errored /\ lost' = lost
      /\ worker' = worker /\ task' = task /\ outbox' = outbox /\ pipe' = pipe
  BY DEF StageInv, ReaderOffer, roundVars, workerVars, resultVars
<1>2. Workers' = Workers /\ BatchIds' = BatchIds
  BY <1>1 DEF Workers, BatchIds
<1>3. PICK fs, o, gs, q : fs = frames /\ o = offering /\ gs = frames' /\ q = offering'
  OBVIOUS
<1>4. InFlight = Carries(fs, o) /\ InFlight' = Carries(gs, q)
  BY <1>3 DEF InFlight, Carries
<1>5. /\ fs \in Seq(Results \cup {STAGE_END}) /\ o \in Results \cup {Nothing, STAGE_END}
      /\ IsInjective(fs) /\ (o \notin Range(fs) \/ o = STAGE_END) /\ (STAGE_END \in Range(fs) => o = STAGE_END)
  BY <1>1, <1>3 DEF Running, ReaderTypes, OnTheWay
<1>6. /\ gs \in Seq(Results \cup {STAGE_END}) /\ IsInjective(gs) /\ Carries(gs, q) = Carries(fs, o)
      /\ q \in {Nothing, STAGE_END} /\ (q \notin Range(gs) \/ q = STAGE_END) /\ (STAGE_END \in Range(gs) => q = STAGE_END)
  <2>1. CASE o \notin {Nothing, STAGE_END} /\ gs = Append(fs, o) /\ q = Nothing
    <3>1. o \in Results /\ o \notin Range(fs) /\ STAGE_END \notin Range(fs)
      BY <1>5, <2>1
    <3>2. /\ gs \in Seq(Results \cup {STAGE_END}) /\ IsInjective(gs) /\ Carries(gs, Nothing) = Carries(fs, o)
          /\ STAGE_END \in Range(gs) => STAGE_END \in Range(fs)
          /\ Nothing \notin Range(gs)
      BY <1>5, <2>1, <3>1, OfferQueued
    <3>3. QED
      BY <2>1, <3>1, <3>2
  <2>2. CASE o = Nothing /\ gs = Append(fs, STAGE_END) /\ q = STAGE_END
    <3>1. STAGE_END \notin Range(fs)
      BY <1>5, <2>2, FrameIds
    <3>2. gs \in Seq(Results \cup {STAGE_END}) /\ IsInjective(gs) /\ Carries(gs, STAGE_END) = Carries(fs, Nothing)
      BY <1>5, <2>2, <3>1, EndQueued
    <3>3. QED
      BY <2>2, <3>2
  <2>3. QED
    BY <1>3, <2>1, <2>2 DEF ReaderOffer
<1>7. InFlight' = InFlight /\ Elsewhere' = Elsewhere
  BY <1>1, <1>4, <1>6 DEF Elsewhere
<1>8. ReaderTypes'
  BY <1>1, <1>2, <1>3, <1>6 DEF Running, ReaderTypes
<1>9. OnTheWay'
  <2>1. Range(suspects)' \cap (InFlight \cup received)' = {} /\ InFlight' \cap received' = {} /\ Elsewhere' \subseteq BatchIds'
    BY <1>1, <1>2, <1>7 DEF Running, OnTheWay
  <2>2. IsInjective(suspects)' /\ IsInjective(frames)'
    BY <1>1, <1>3, <1>6 DEF Running, OnTheWay
  <2>3. QED
    BY <1>3, <1>6, <2>1, <2>2 DEF OnTheWay
<1>10. /\ WorkerTypes' /\ (\A v \in Workers : FitsIn(v))' /\ QueueBound'
       /\ Sound(disp, Workers, BatchIds, Elsewhere, Live, Hands)'
  BY <1>1, <1>7, StaffStays
<1>11. FileTypes' /\ NoDoubleIngest' /\ AccountedFor' /\ FilesOpen'
  BY <1>1, FilesStay DEF StageInv, Running
<1>12. QED
  BY <1>8, <1>9, <1>10, <1>11 DEF StageInv, Running

LEMMA ReaderSteps ==
    ASSUME StageInv, NEW w, ReaderStep(w)
    PROVE  StageInv'
<1>1. /\ Running /\ outcome' = "run" /\ UNCHANGED <<roundVars, frames, workerVars, resultVars>>
  BY DEF StageInv, ReaderStep
<1>2. w \in Workers
  <2>1. w \in openConns
    BY DEF ReaderStep, ReadDone, ReadInitFailed, ReadResult, ReadUnreadable, ReadEOF, CanRead
  <2>2. QED
    BY <1>1, <2>1 DEF Running, ReaderTypes
<1>3. CASE ReadDone(w) \/ ReadInitFailed(w) \/ ReadUnreadable(w)
  <2>1. /\ pipe[w] # << >> /\ pipe' = [pipe EXCEPT ![w] = Tail(pipe[w])] /\ disp' = disp
        /\ openConns' = openConns /\ suspects' = suspects /\ offering' = offering
    BY <1>3 DEF ReadDone, ReadInitFailed, ReadUnreadable, CanRead, Read, readerVars
  <2>2. Undisturbed /\ worker' = worker /\ task' = task /\ outbox' = outbox
    BY <1>1, <2>1 DEF Undisturbed, roundVars, workerVars, resultVars
  <2>3. QED
    BY <1>1, <1>2, <2>1, <2>2, FrameGone
<1>4. CASE ReadResult(w)
  BY <1>1, <1>2, <1>4, ResultRead
<1>5. CASE ReadEOF(w)
  BY <1>1, <1>2, <1>5, EndOfPipe
<1>6. QED
  BY <1>3, <1>4, <1>5 DEF ReaderStep

(***************************************************************************)
(* The steps of the main thread.                                           *)
(***************************************************************************)
\* The files of a batch are in no other batch.
LEMMA OneBatch ==
    ASSUME FileTypes, OnceEach(batches), NEW b \in BatchIds, NEW c \in BatchIds, c # b
    PROVE  Range(batches[b]) \cap Range(batches[c]) = {} /\ Range(batches[b]) \subseteq Files
<1>1. DOMAIN batches = BatchIds /\ batches[b] \in Seq(Files)
  BY DEF FileTypes, BatchIds
<1>2. Range(batches[b]) \subseteq Files
  BY <1>1, RangeOfSeq
<1>3. QED
  BY <1>1, <1>2 DEF OnceEach

\* What is done with the files of the batch that is received: one more, or an
\* error, and the other files are left alone.
Treated(b) ==
    /\ ingested' \in [Files -> Nat] /\ errored \subseteq errored' /\ errored' \subseteq Files
    /\ \A f \in Files \ Range(batches[b]) : ingested'[f] = ingested[f]
    /\ \A f \in Range(batches[b]) : \/ ingested'[f] = ingested[f] + 1
                                    \/ ingested'[f] = ingested[f] /\ f \in errored'

LEMMA BatchTreated ==
    ASSUME FileTypes, NEW b \in BatchIds, Ingest(b) \/ IngestFails(b)
    PROVE  Treated(b)
<1>1. batches[b] \in Seq(Files) /\ ingested \in [Files -> Nat] /\ errored \subseteq Files
  BY DEF FileTypes, BatchIds
<1>2. PICK fs : fs = Range(batches[b])
  OBVIOUS
<1>3. fs \subseteq Files /\ ToSet(batches[b]) = fs
  BY <1>1, <1>2, RangeOfSeq DEF ToSet, Range
<1>4. CASE Ingest(b)
  <2>1. ingested' = [f \in Files |-> IF f \in fs \ Faulty THEN ingested[f] + 1 ELSE ingested[f]]
    BY <1>3, <1>4 DEF Ingest
  <2>2. errored' = errored \cup (fs \cap Faulty)
    BY <1>3, <1>4 DEF Ingest
  <2>3. ingested' \in [Files -> Nat]
    BY <1>1, <2>1
  <2>4. QED
    BY <1>1, <1>2, <1>3, <2>1, <2>2, <2>3 DEF Treated
<1>5. CASE IngestFails(b)
  BY <1>1, <1>2, <1>3, <1>5 DEF IngestFails, Treated
<1>6. QED
  BY <1>4, <1>5

LEMMA FilesOnceMore ==
    ASSUME FileTypes, NoDoubleIngest, FilesOpen, NEW b \in BatchIds, b \notin received, Treated(b),
           batches' = batches, round' = round, lost' = lost, received' = received \cup {b}, outcome' = "run",
           received \subseteq BatchIds
    PROVE  FileTypes' /\ NoDoubleIngest' /\ AccountedFor' /\ FilesOpen'
<1>1. BatchIds' = BatchIds /\ FilesLost' = FilesLost
  BY DEF BatchIds, FilesLost
<1>2. FileTypes'
  BY DEF FileTypes, Treated
<1>3. /\ ingested \in [Files -> Nat] /\ OnceEach(batches) /\ Range(batches[b]) \subseteq Files
      /\ DOMAIN batches = BatchIds
  <2>1. batches[b] \in Seq(Files)
    BY DEF FileTypes, BatchIds
  <2>2. QED
    BY <2>1, RangeOfSeq DEF FileTypes, FilesOpen, BatchIds
<1>4. ASSUME NEW f \in Range(batches[b])
      PROVE  /\ ingested[f] = 0 /\ f \notin FilesLost
             /\ ingested'[f] = 1 \/ (ingested'[f] = 0 /\ f \in errored')
  <2>1. ingested[f] = 0 /\ f \notin FilesLost
    BY DEF FilesOpen
  <2>2. QED
    BY <2>1 DEF Treated
<1>5. NoDoubleIngest'
  <2>1. ASSUME NEW f \in Files PROVE ingested'[f] <= (IF f \in FilesLost THEN 0 ELSE 1)
    <3>1. CASE f \in Range(batches[b])
      BY <1>4, <3>1
    <3>2. CASE f \notin Range(batches[b])
      BY <3>2 DEF Treated, NoDoubleIngest
    <3>3. QED
      BY <3>1, <3>2
  <2>2. QED
    BY <1>1, <2>1 DEF NoDoubleIngest
<1>6. \A c \in BatchIds \ {b} : \A f \in Range(batches[c]) :
         f \in Files /\ f \notin Range(batches[b]) /\ ingested'[f] = ingested[f]
  <2>1. ASSUME NEW c \in BatchIds \ {b}, NEW f \in Range(batches[c])
        PROVE  f \in Files /\ f \notin Range(batches[b])
    BY <1>3, <2>1, OneBatch
  <2>2. QED
    BY <2>1 DEF Treated
<1>7. \A c \in BatchIds \ (received \cup {b}) : \A f \in Range(batches[c]) : ingested'[f] = 0 /\ f \notin FilesLost
  BY <1>6 DEF FilesOpen
<1>8. \A c \in received \cup {b} : \A f \in Range(batches[c]) : ingested'[f] = 1 \/ f \in errored'
  <2>1. ASSUME NEW c \in received, NEW f \in Range(batches[c]) PROVE ingested'[f] = 1 \/ f \in errored'
    BY <1>6 DEF FilesOpen, Treated
  <2>2. QED
    BY <1>4, <2>1
<1>9. ASSUME NEW f \in FilesOf(Batches)
      PROVE  (\E c \in BatchIds : f \in Range(batches[c])) \/ ingested'[f] = 1 \/ f \in errored' \/ f \in FilesLost
  <2>1. CASE f \in Range(batches[b])
    BY <2>1
  <2>2. CASE f \notin Range(batches[b])
    <3>1. f \in Files => ingested'[f] = ingested[f]
      BY <2>2 DEF Treated
    <3>2. f \in Files
      BY StageAssumptions, RangeOfSeq DEF FilesOf, ToSet, Range
    <3>3. QED
      BY <3>1, <3>2 DEF FilesOpen, Treated
  <2>3. QED
    BY <2>1, <2>2
<1>10. FilesOpen'
  BY <1>1, <1>3, <1>7, <1>8, <1>9 DEF FilesOpen
<1>11. AccountedFor'
  BY DEF AccountedFor
<1>12. QED
  BY <1>2, <1>5, <1>10, <1>11

LEMMA IngestSteps ==
    ASSUME StageInv, NEW b \in 1..Len(batches), Ingest(b) \/ IngestFails(b)
    PROVE  StageInv'
<1>1. /\ Running /\ batches' = batches /\ openConns' = openConns /\ suspects' = suspects
      /\ offering' = offering /\ frames' = Tail(frames)
      /\ received' = received \cup {b} /\ round' = round /\ outcome' = "run" /\ disp' = disp
      /\ lost' = lost /\ worker' = worker /\ task' = task /\ outbox' = outbox /\ pipe' = pipe
      /\ frames # << >> /\ Head(frames) # STAGE_END /\ b = Head(frames).batch
  BY DEF StageInv, Ingest, IngestFails, TakeResult, roundVars, readerVars, workerVars
<1>2. Workers' = Workers /\ BatchIds' = BatchIds /\ b \in BatchIds
  BY <1>1 DEF Workers, BatchIds
<1>3. PICK fs, gs : fs = frames /\ gs = Tail(fs)
  OBVIOUS
<1>4. /\ fs \in Seq(Results \cup {STAGE_END}) /\ offering \in Results \cup {Nothing, STAGE_END}
      /\ IsInjective(fs) /\ fs # << >> /\ Head(fs) # STAGE_END /\ (offering \notin Range(fs) \/ offering = STAGE_END)
  BY <1>1, <1>3 DEF Running, ReaderTypes, OnTheWay
<1>5. /\ gs \in Seq(Results \cup {STAGE_END}) /\ IsInjective(gs) /\ Range(gs) \subseteq Range(fs)
      /\ b \in Carries(fs, offering) /\ Carries(gs, offering) = Carries(fs, offering) \ {b}
  BY <1>1, <1>3, <1>4, ResultTaken
<1>6. InFlight = Carries(fs, offering) /\ InFlight' = Carries(gs, offering)
  BY <1>1, <1>3 DEF InFlight, Carries
<1>7. b \in InFlight /\ InFlight' = InFlight \ {b} /\ b \notin received /\ b \notin Range(suspects)
  BY <1>1, <1>5, <1>6 DEF Running, OnTheWay
<1>8. Elsewhere' = Elsewhere
  BY <1>1, <1>7 DEF Elsewhere
<1>9. ReaderTypes'
  <2>1. b \in Nat
    BY <1>1, <1>2 DEF BatchIds
  <2>2. QED
    BY <1>1, <1>2, <1>3, <1>5, <2>1 DEF Running, ReaderTypes
<1>10. OnTheWay'
  <2>1. IsInjective(suspects)' /\ IsInjective(frames)' /\ Range(frames)' \subseteq Range(frames)
    BY <1>1, <1>3, <1>5 DEF Running, OnTheWay
  <2>2. /\ offering' \notin Range(frames') \/ offering' = STAGE_END
        /\ STAGE_END \in Range(frames') => offering' = STAGE_END
    BY <1>1, <2>1 DEF Running, OnTheWay
  <2>3. Range(suspects)' \cap (InFlight \cup received)' = {} /\ InFlight' \cap received' = {}
    BY <1>1, <1>7 DEF Running, OnTheWay
  <2>4. Elsewhere' \subseteq BatchIds'
    BY <1>1, <1>2, <1>8 DEF Running, OnTheWay
  <2>5. QED
    BY <2>1, <2>2, <2>3, <2>4 DEF OnTheWay
<1>11. /\ WorkerTypes' /\ (\A v \in Workers : FitsIn(v))' /\ QueueBound'
       /\ Sound(disp, Workers, BatchIds, Elsewhere, Live, Hands)'
  BY <1>1, <1>8, StaffStays
<1>12. FileTypes' /\ NoDoubleIngest' /\ AccountedFor' /\ FilesOpen'
  <2>1. FileTypes /\ NoDoubleIngest /\ FilesOpen /\ received \subseteq BatchIds
    BY <1>1 DEF StageInv, Running, OnTheWay, Elsewhere
  <2>2. Treated(b)
    BY <1>2, <2>1, BatchTreated
  <2>3. QED
    BY <1>1, <1>2, <1>7, <2>1, <2>2, FilesOnceMore
<1>13. QED
  BY <1>9, <1>10, <1>11, <1>12 DEF StageInv, Running

(***************************************************************************)
(* The verdict on the round.                                               *)
(***************************************************************************)
\* The batches that did not arrive are blamed or unfinished, not both.
LEMMA Missing ==
    ASSUME FileTypes, Running
    PROVE  /\ Suspects \in Seq(BatchIds) /\ IsInjective(Suspects)
           /\ Unfinished \in Seq(BatchIds) /\ IsInjective(Unfinished)
           /\ Range(Suspects) \cap Range(Unfinished) = {}
           /\ Range(Suspects) \cup Range(Unfinished) = BatchIds \ received
<1>1. PICK n, sus, S, U : n = Len(batches) /\ sus = suspects /\ S = Suspects /\ U = Unfinished
  OBVIOUS
<1>2. n \in Nat /\ BatchIds = 1..n
  BY <1>1 DEF FileTypes, BatchIds
<1>3. sus \in Seq(Nat) /\ IsInjective(sus) /\ Range(sus) \subseteq BatchIds
  BY <1>1 DEF Running, ReaderTypes, OnTheWay, Elsewhere
<1>4. PICK X : X = BatchIds \ received
  OBVIOUS
<1>5. S = Those(sus, X)
  BY <1>1, <1>2, <1>4 DEF Suspects
<1>6. S \in Seq(Nat) /\ Range(S) = Range(sus) \cap X /\ IsInjective(S)
  BY <1>3, <1>5, ThoseOf
<1>7. PICK u, Y : u = UpTo(n) /\ Y = BatchIds \ (received \cup Range(S))
  OBVIOUS
<1>8. ToSet(S) = Range(S)
  BY DEF ToSet, Range
<1>9. U = Those(u, Y)
  BY <1>1, <1>2, <1>7, <1>8 DEF Unfinished
<1>10. u \in Seq(Nat) /\ IsInjective(u) /\ Range(u) = 1..n
  BY <1>2, <1>7, Numbers
<1>11. U \in Seq(Nat) /\ Range(U) = Range(u) \cap Y /\ IsInjective(U)
  BY <1>9, <1>10, ThoseOf
<1>12. Range(S) \subseteq BatchIds /\ Range(U) \subseteq BatchIds
  BY <1>2, <1>3, <1>6, <1>10, <1>11
<1>13. S \in Seq(BatchIds) /\ U \in Seq(BatchIds)
  BY <1>6, <1>11, <1>12, SeqOfRange
<1>14. Range(S) \cap Range(U) = {} /\ Range(S) \cup Range(U) = BatchIds \ received
  BY <1>2, <1>4, <1>6, <1>7, <1>10, <1>11
<1>15. QED
  BY <1>1, <1>6, <1>11, <1>13, <1>14

\* The files of some of the batches.
FilesIn(ids) == UNION {Range(batches[i]) : i \in Range(ids)}

LEMMA BatchesOfIds ==
    ASSUME FileTypes, OnceEach(batches), NEW ids \in Seq(BatchIds), IsInjective(ids)
    PROVE  /\ BatchesOf(ids) \in Seq(Seq(Files)) /\ OnceEach(BatchesOf(ids))
           /\ FilesOf(BatchesOf(ids)) = FilesIn(ids) /\ FilesIn(ids) \subseteq Files
           /\ BatchesOf(ids) = << >> => FilesIn(ids) = {}
<1>1. PICK c : c = BatchesOf(ids)
  OBVIOUS
<1>2. DOMAIN batches = BatchIds /\ \A b \in BatchIds : batches[b] \in Seq(Files)
  BY DEF FileTypes, BatchIds
<1>3. c = [i \in DOMAIN ids |-> batches[ids[i]]] /\ DOMAIN ids = 1..Len(ids) /\ Len(ids) \in Nat
  BY <1>1 DEF BatchesOf
<1>4. \A i \in DOMAIN ids : ids[i] \in BatchIds /\ ids[i] \in Range(ids) /\ c[i] = batches[ids[i]] /\ c[i] \in Seq(Files)
  BY <1>2, <1>3 DEF Range
<1>5. c \in Seq(Seq(Files)) /\ DOMAIN c = DOMAIN ids
  BY <1>3, <1>4
<1>6. OnceEach(c)
  <2>1. \A i \in DOMAIN c : IsInjective(c[i])
    BY <1>2, <1>4, <1>5 DEF OnceEach
  <2>2. ASSUME NEW i \in DOMAIN c, NEW j \in DOMAIN c, i # j PROVE Range(c[i]) \cap Range(c[j]) = {}
    <3>1. ids[i] # ids[j]
      BY <1>5, <2>2 DEF IsInjective
    <3>2. QED
      BY <1>2, <1>4, <1>5, <3>1 DEF OnceEach
  <2>3. QED
    BY <2>1, <2>2 DEF OnceEach
<1>7. FilesOf(c) = UNION {Range(c[i]) : i \in DOMAIN c}
  BY DEF FilesOf, ToSet, Range
<1>8. FilesOf(c) = FilesIn(ids)
  <2>1. ASSUME NEW f PROVE f \in FilesOf(c) <=> f \in FilesIn(ids)
    <3>1. f \in FilesOf(c) => f \in FilesIn(ids)
      BY <1>4, <1>5, <1>7 DEF FilesIn
    <3>2. ASSUME f \in FilesIn(ids) PROVE f \in FilesOf(c)
      <4>1. PICK b \in Range(ids) : f \in Range(batches[b])
        BY <3>2 DEF FilesIn
      <4>2. PICK i \in DOMAIN ids : ids[i] = b
        BY <4>1 DEF Range
      <4>3. f \in Range(c[i]) /\ i \in DOMAIN c
        BY <1>4, <1>5, <4>1, <4>2
      <4>4. QED
        BY <1>7, <4>3
    <3>3. QED
      BY <3>1, <3>2
  <2>2. QED
    BY <2>1
<1>9. FilesIn(ids) \subseteq Files
  <2>1. \A i \in DOMAIN c : Range(c[i]) \subseteq Files
    BY <1>4, <1>5, RangeOfSeq
  <2>2. QED
    BY <1>7, <1>8, <2>1
<1>10. c = << >> => FilesOf(c) = {}
  BY <1>7
<1>11. QED
  BY <1>1, <1>5, <1>6, <1>8, <1>9, <1>10

\* Every file of them in a batch of its own.
LEMMA OneFileOfIds ==
    ASSUME FileTypes, OnceEach(batches), NEW ids \in Seq(BatchIds), IsInjective(ids)
    PROVE  /\ OneFileEach(ids) \in Seq(Seq(Files)) /\ OnceEach(OneFileEach(ids))
           /\ FilesOf(OneFileEach(ids)) = FilesIn(ids)
           /\ OneFileEach(ids) = << >> => FilesIn(ids) = {}
<1>1. PICK c, fs, r : c = BatchesOf(ids) /\ fs = FlattenSeq(c) /\ r = OneFileEach(ids)
  OBVIOUS
<1>2. c \in Seq(Seq(Files)) /\ OnceEach(c) /\ FilesOf(c) = FilesIn(ids)
  BY <1>1, BatchesOfIds
<1>3. /\ \A i \in DOMAIN c : IsInjective(c[i])
      /\ \A i, j \in DOMAIN c : i # j => Range(c[i]) \cap Range(c[j]) = {}
  BY <1>2 DEF OnceEach
<1>4. fs \in Seq(Files) /\ IsInjective(fs) /\ Range(fs) = UNION {Range(c[i]) : i \in DOMAIN c}
  BY <1>1, <1>2, <1>3, Flattened
<1>5. Range(fs) = FilesIn(ids)
  BY <1>2, <1>4 DEF FilesOf, ToSet, Range
<1>6. r = [i \in DOMAIN fs |-> <<fs[i]>>] /\ DOMAIN fs = 1..Len(fs) /\ Len(fs) \in Nat
  BY <1>1, <1>4 DEF OneFileEach
<1>7. \A i \in DOMAIN fs : r[i] = <<fs[i]>> /\ fs[i] \in Files
  BY <1>4, <1>6
<1>8. \A f \in Files : <<f>> \in Seq(Files) /\ IsInjective(<<f>>) /\ Range(<<f>>) = {f}
  BY DEF IsInjective, Range
<1>9. /\ DOMAIN r = DOMAIN fs
      /\ \A i \in DOMAIN r : r[i] \in Seq(Files) /\ IsInjective(r[i]) /\ Range(r[i]) = {fs[i]}
  BY <1>6, <1>7, <1>8
<1>10. r \in Seq(Seq(Files))
  BY <1>6, <1>9
<1>11. OnceEach(r)
  BY <1>4, <1>9 DEF OnceEach, IsInjective
<1>12. FilesOf(r) = UNION {Range(r[i]) : i \in DOMAIN r}
  BY DEF FilesOf, ToSet, Range
<1>13. FilesOf(r) = Range(fs)
  <2>1. \A f : f \in FilesOf(r) <=> \E i \in DOMAIN r : f \in Range(r[i])
    BY <1>12
  <2>2. \A f : f \in FilesOf(r) <=> \E i \in DOMAIN fs : f = fs[i]
    BY <1>9, <2>1
  <2>3. QED
    BY <2>2 DEF Range
<1>14. r = << >> => FilesOf(r) = {}
  BY <1>12
<1>15. QED
  BY <1>1, <1>5, <1>10, <1>11, <1>13, <1>14

LEMMA TogetherOnce ==
    ASSUME NEW x \in Seq(Seq(Files)), NEW y \in Seq(Seq(Files)), OnceEach(x), OnceEach(y),
           FilesOf(x) \cap FilesOf(y) = {}
    PROVE  x \o y \in Seq(Seq(Files)) /\ OnceEach(x \o y) /\ FilesOf(x \o y) = FilesOf(x) \cup FilesOf(y)
<1>1. PICK z, m, n : z = x \o y /\ m = Len(x) /\ n = Len(y)
  OBVIOUS
<1>2. /\ m \in Nat /\ n \in Nat /\ DOMAIN x = 1..m /\ DOMAIN y = 1..n
      /\ z \in Seq(Seq(Files)) /\ DOMAIN z = 1..(m + n)
      /\ \A i \in 1..(m + n) : z[i] = IF i <= m THEN x[i] ELSE y[i - m]
  BY <1>1, ConcatProperties
<1>3. \A i \in 1..m : i \in 1..(m + n) /\ z[i] = x[i]
  BY <1>2
<1>4. \A j \in 1..n : j + m \in 1..(m + n) /\ z[j + m] = y[j]
  BY <1>2
<1>5. \A i \in 1..(m + n) : i \in 1..m \/ (i - m \in 1..n /\ i > m /\ z[i] = y[i - m])
  BY <1>2
<1>6. \A i \in 1..m : Range(x[i]) \subseteq FilesOf(x)
  BY <1>2 DEF FilesOf, ToSet, Range
<1>7. \A j \in 1..n : Range(y[j]) \subseteq FilesOf(y)
  BY <1>2 DEF FilesOf, ToSet, Range
<1>8. \A i \in DOMAIN z : IsInjective(z[i])
  BY <1>2, <1>3, <1>5 DEF OnceEach
<1>9. ASSUME NEW i \in DOMAIN z, NEW j \in DOMAIN z, i # j
      PROVE  Range(z[i]) \cap Range(z[j]) = {}
  <2>1. i \in 1..(m + n) /\ j \in 1..(m + n) /\ i \in Nat /\ j \in Nat
    BY <1>2
  <2>2. CASE i \in 1..m /\ j \in 1..m
    BY <1>2, <1>3, <1>9, <2>2 DEF OnceEach
  <2>3. CASE i \in 1..m /\ j \notin 1..m
    BY <1>3, <1>5, <1>6, <1>7, <2>1, <2>3
  <2>4. CASE i \notin 1..m /\ j \in 1..m
    BY <1>3, <1>5, <1>6, <1>7, <2>1, <2>4
  <2>5. CASE i \notin 1..m /\ j \notin 1..m
    <3>1. PICK k, l : k = i - m /\ l = j - m
      OBVIOUS
    <3>2. k \in 1..n /\ l \in 1..n /\ z[i] = y[k] /\ z[j] = y[l]
      BY <1>5, <2>1, <2>5, <3>1
    <3>3. k # l
      BY <1>2, <1>9, <2>1, <3>1
    <3>4. QED
      BY <1>2, <3>2, <3>3 DEF OnceEach
  <2>6. QED
    BY <2>2, <2>3, <2>4, <2>5
<1>10. OnceEach(z)
  BY <1>8, <1>9 DEF OnceEach
<1>11. FilesOf(z) = FilesOf(x) \cup FilesOf(y)
  <2>1. \A s : FilesOf(s) = UNION {Range(s[i]) : i \in DOMAIN s}
    BY DEF FilesOf, ToSet, Range
  <2>2. \A i \in 1..(m + n) : Range(z[i]) \subseteq FilesOf(x) \cup FilesOf(y)
    BY <1>3, <1>5, <1>6, <1>7
  <2>3. FilesOf(z) \subseteq FilesOf(x) \cup FilesOf(y)
    <3>1. ASSUME NEW f \in FilesOf(z) PROVE f \in FilesOf(x) \cup FilesOf(y)
      <4>1. PICK i \in 1..(m + n) : f \in Range(z[i])
        BY <1>2, <2>1
      <4>2. QED
        BY <2>2, <4>1
    <3>2. QED
      BY <3>1
  <2>4. FilesOf(x) \subseteq FilesOf(z)
    BY <1>2, <1>3, <2>1
  <2>5. FilesOf(y) \subseteq FilesOf(z)
    <3>1. ASSUME NEW f \in FilesOf(y) PROVE f \in FilesOf(z)
      <4>1. PICK j \in 1..n : f \in Range(y[j])
        BY <1>2, <2>1
      <4>2. PICK i : i = j + m
        OBVIOUS
      <4>3. i \in DOMAIN z /\ f \in Range(z[i])
        BY <1>2, <1>4, <4>1, <4>2
      <4>4. QED
        BY <2>1, <4>3
    <3>2. QED
      BY <3>1
  <2>6. QED
    BY <2>3, <2>4, <2>5
<1>12. QED
  BY <1>1, <1>2, <1>10, <1>11

\* The files of the batches that did not arrive: those of the suspects and
\* those of the unfinished ones; none is ingested or reported.
LEMMA MissingFiles ==
    ASSUME FileTypes, Running
    PROVE  /\ FilesIn(Suspects) \cap FilesIn(Unfinished) = {}
           /\ FilesIn(Suspects) \subseteq Files /\ FilesIn(Unfinished) \subseteq Files
           /\ \A f \in FilesIn(Suspects) \cup FilesIn(Unfinished) : ingested[f] = 0 /\ f \notin FilesLost
           /\ \A f \in FilesOf(Batches) :
                 \/ f \in FilesIn(Suspects) \cup FilesIn(Unfinished)
                 \/ ingested[f] = 1 \/ f \in errored \/ f \in FilesLost
<1>1. PICK S, U : S = Suspects /\ U = Unfinished
  OBVIOUS
<1>2. /\ S \in Seq(BatchIds) /\ IsInjective(S) /\ U \in Seq(BatchIds) /\ IsInjective(U)
      /\ Range(S) \cap Range(U) = {} /\ Range(S) \cup Range(U) = BatchIds \ received
  BY <1>1, Missing
<1>3. FilesOpen /\ OnceEach(batches) /\ received \subseteq BatchIds
  BY DEF Running, FilesOpen, OnTheWay, Elsewhere
<1>4. FilesIn(S) \subseteq Files /\ FilesIn(U) \subseteq Files
  BY <1>2, <1>3, BatchesOfIds
<1>5. ASSUME NEW f \in FilesIn(S), f \in FilesIn(U) PROVE FALSE
  <2>1. PICK b \in Range(S) : f \in Range(batches[b])
    BY DEF FilesIn
  <2>2. PICK c \in Range(U) : f \in Range(batches[c])
    BY <1>5 DEF FilesIn
  <2>3. b \in BatchIds /\ c \in BatchIds /\ b # c
    BY <1>2, <2>1, <2>2
  <2>4. Range(batches[b]) \cap Range(batches[c]) = {}
    BY <1>3, <2>3, OneBatch
  <2>5. QED
    BY <2>1, <2>2, <2>4
<1>6. \A f : f \in FilesIn(S) \cup FilesIn(U) <=> \E b \in BatchIds \ received : f \in Range(batches[b])
  BY <1>2 DEF FilesIn
<1>7. \A f \in FilesIn(S) \cup FilesIn(U) : ingested[f] = 0 /\ f \notin FilesLost
  BY <1>3, <1>6 DEF FilesOpen
<1>8. ASSUME NEW f \in FilesOf(Batches), f \notin FilesIn(S) \cup FilesIn(U)
      PROVE  ingested[f] = 1 \/ f \in errored \/ f \in FilesLost
  <2>1. CASE \E b \in BatchIds : f \in Range(batches[b])
    <3>1. PICK b \in BatchIds : f \in Range(batches[b])
      BY <2>1
    <3>2. b \in received
      BY <1>6, <1>8, <3>1
    <3>3. QED
      BY <1>3, <3>1, <3>2 DEF FilesOpen
  <2>2. CASE ~ \E b \in BatchIds : f \in Range(batches[b])
    BY <1>3, <2>2 DEF FilesOpen
  <2>3. QED
    BY <2>1, <2>2
<1>9. QED
  BY <1>1, <1>4, <1>5, <1>7, <1>8

\* What is parsed again: the suspects one by one in the first round, and the
\* unfinished batches.
LEMMA ParsedAgain ==
    ASSUME FileTypes, Running
    PROVE  /\ RetryBatches \in Seq(Seq(Files)) /\ OnceEach(RetryBatches)
           /\ FilesOf(RetryBatches) = (IF round = 1 THEN FilesIn(Suspects) ELSE {}) \cup FilesIn(Unfinished)
<1>1. PICK S, U, x, y : /\ S = Suspects /\ U = Unfinished
                        /\ x = (IF round = 1 THEN OneFileEach(S) ELSE << >>) /\ y = BatchesOf(U)
  OBVIOUS
<1>2. S \in Seq(BatchIds) /\ IsInjective(S) /\ U \in Seq(BatchIds) /\ IsInjective(U)
  BY <1>1, Missing
<1>3. FilesIn(S) \cap FilesIn(U) = {} /\ OnceEach(batches)
  BY <1>1, MissingFiles DEF Running, FilesOpen
<1>4. y \in Seq(Seq(Files)) /\ OnceEach(y) /\ FilesOf(y) = FilesIn(U)
  BY <1>1, <1>2, <1>3, BatchesOfIds
<1>5. x \in Seq(Seq(Files)) /\ OnceEach(x) /\ FilesOf(x) = IF round = 1 THEN FilesIn(S) ELSE {}
  <2>1. CASE round = 1
    BY <1>1, <1>2, <1>3, <2>1, OneFileOfIds
  <2>2. CASE round # 1
    <3>1. << >> \in Seq(Seq(Files)) /\ OnceEach(<< >>) /\ FilesOf(<< >>) = {}
      BY DEF OnceEach, FilesOf
    <3>2. QED
      BY <1>1, <2>2, <3>1
  <2>3. QED
    BY <2>1, <2>2
<1>6. FilesOf(x) \cap FilesOf(y) = {}
  BY <1>3, <1>4, <1>5
<1>7. x \o y \in Seq(Seq(Files)) /\ OnceEach(x \o y) /\ FilesOf(x \o y) = FilesOf(x) \cup FilesOf(y)
  BY <1>4, <1>5, <1>6, TogetherOnce
<1>8. RetryBatches = x \o y
  BY <1>1 DEF RetryBatches
<1>9. QED
  BY <1>1, <1>4, <1>5, <1>7, <1>8

\* The report of the round: the suspects of a retry round, and what a retry
\* round that got nowhere has not parsed.
LEMMA ReportedFiles ==
    ASSUME FileTypes, Running, NoDoubleIngest, lost' = Reported, ingested' = ingested
    PROVE  /\ lost' \in [died : SUBSET Files, noworker : SUBSET Files]
           /\ FilesLost' = FilesLost \cup (IF round = 1 THEN {} ELSE FilesIn(Suspects))
                                     \cup (IF NoProgress THEN FilesIn(Unfinished) ELSE {})
           /\ NoDoubleIngest'
<1>1. PICK S, U, D, N : /\ S = FilesIn(Suspects) /\ U = FilesIn(Unfinished)
                        /\ D = lost.died \cup (IF round = 1 THEN {} ELSE S)
                        /\ N = lost.noworker \cup (IF NoProgress THEN U ELSE {})
  OBVIOUS
<1>2. FilesOf(BatchesOf(Suspects)) = S /\ FilesOf(BatchesOf(Unfinished)) = U
  <2>1. /\ Suspects \in Seq(BatchIds) /\ IsInjective(Suspects)
        /\ Unfinished \in Seq(BatchIds) /\ IsInjective(Unfinished)
    BY Missing
  <2>2. OnceEach(batches)
    BY DEF Running, FilesOpen
  <2>3. QED
    BY <1>1, <2>1, <2>2, BatchesOfIds
<1>3. S \subseteq Files /\ U \subseteq Files /\ \A f \in S \cup U : ingested[f] = 0
  BY <1>1, MissingFiles
<1>4. lost.died \subseteq Files /\ lost.noworker \subseteq Files
  BY DEF FileTypes
<1>5. lost' = [died |-> D, noworker |-> N]
  BY <1>1, <1>2 DEF Reported
<1>6. lost' \in [died : SUBSET Files, noworker : SUBSET Files] /\ lost'.died = D /\ lost'.noworker = N
  BY <1>1, <1>3, <1>4, <1>5
<1>7. FilesLost' = FilesLost \cup (IF round = 1 THEN {} ELSE S) \cup (IF NoProgress THEN U ELSE {})
  BY <1>1, <1>6 DEF FilesLost
<1>8. NoDoubleIngest'
  <2>1. ASSUME NEW f \in Files PROVE ingested[f] <= (IF f \in FilesLost' THEN 0 ELSE 1)
    <3>1. CASE f \in S \cup U
      BY <1>3, <3>1
    <3>2. CASE f \notin S \cup U
      <4>1. f \in FilesLost' <=> f \in FilesLost
        BY <1>7, <3>2
      <4>2. QED
        BY <4>1 DEF NoDoubleIngest
    <3>3. QED
      BY <3>1, <3>2
  <2>2. QED
    BY <2>1 DEF NoDoubleIngest
<1>9. QED
  BY <1>1, <1>6, <1>7, <1>8

LEMMA ReturnSteps ==
    ASSUME StageInv, StageReturns
    PROVE  StageInv'
<1>1. /\ Running /\ FileTypes /\ NoDoubleIngest /\ lost' = Reported /\ outcome' = "done"
      /\ batches' = batches /\ round' = round /\ ingested' = ingested /\ errored' = errored
      /\ RetryBatches = << >> \/ NoProgress
  BY DEF StageInv, StageReturns, StageOver, roundVars
<1>2. PICK S, U : S = FilesIn(Suspects) /\ U = FilesIn(Unfinished)
  OBVIOUS
<1>3. /\ lost' \in [died : SUBSET Files, noworker : SUBSET Files]
      /\ FilesLost' = FilesLost \cup (IF round = 1 THEN {} ELSE S) \cup (IF NoProgress THEN U ELSE {})
      /\ NoDoubleIngest'
  BY <1>1, <1>2, ReportedFiles
<1>4. FileTypes'
  BY <1>1, <1>3 DEF FileTypes
<1>5. /\ U = {} \/ NoProgress
      /\ S = {} \/ round # 1
  <2>1. CASE RetryBatches = << >>
    <3>1. FilesOf(RetryBatches) = (IF round = 1 THEN S ELSE {}) \cup U
      BY <1>1, <1>2, ParsedAgain
    <3>2. FilesOf(<< >>) = {}
      BY DEF FilesOf
    <3>3. QED
      BY <2>1, <3>1, <3>2
  <2>2. CASE NoProgress
    BY <1>1, <2>2 DEF NoProgress
  <2>3. QED
    BY <1>1, <2>1, <2>2
<1>6. \A f \in FilesOf(Batches) : f \in S \cup U \/ ingested[f] = 1 \/ f \in errored \/ f \in FilesLost
  BY <1>1, <1>2, MissingFiles
<1>7. \A f \in FilesOf(Batches) : ingested[f] = 1 \/ f \in errored \/ f \in FilesLost'
  BY <1>3, <1>5, <1>6
<1>8. AccountedFor'
  BY <1>1, <1>7 DEF AccountedFor
<1>9. QED
  BY <1>1, <1>3, <1>4, <1>8 DEF StageInv

\* The stage is over and its result does not count.
LEMMA OverSteps ==
    ASSUME StageInv, outcome' \notin {"run", "done"},
           batches' = batches, round' = round, ingested' = ingested, errored' = errored, lost' = lost
    PROVE  StageInv'
<1>1. FileTypes'
  BY DEF StageInv, FileTypes
<1>2. NoDoubleIngest'
  BY DEF StageInv, NoDoubleIngest, FilesLost
<1>3. AccountedFor'
  BY DEF AccountedFor
<1>4. QED
  BY <1>1, <1>2, <1>3 DEF StageInv

(***************************************************************************)
(* A round begins.                                                         *)
(***************************************************************************)
Fresh ==
    /\ disp = Dealt(batches) /\ openConns = Workers
    /\ suspects = << >> /\ offering = Nothing /\ frames = << >> /\ received = {}
    /\ worker = [w \in Workers |-> "init"] /\ task = [w \in Workers |-> NoTask]
    /\ outbox = [w \in Workers |-> << >>] /\ pipe = [w \in Workers |-> << >>]

LEMMA RoundBegins ==
    FileTypes /\ Fresh =>
        /\ ReaderTypes /\ WorkerTypes /\ (\A w \in Workers : FitsIn(w))
        /\ Sound(disp, Workers, BatchIds, Elsewhere, Live, Hands)
        /\ OnTheWay /\ QueueBound
<1> SUFFICES ASSUME FileTypes, Fresh
             PROVE  /\ ReaderTypes /\ WorkerTypes /\ (\A w \in Workers : FitsIn(w))
                    /\ Sound(disp, Workers, BatchIds, Elsewhere, Live, Hands)
                    /\ OnTheWay /\ QueueBound
  OBVIOUS
<1>1. Range(<< >>) = {} /\ IsInjective(<< >>) /\ Ids({}) = {} /\ DOMAIN << >> = {} /\ NoTask \in Nat
  BY DEF Range, IsInjective, Ids, NoTask
<1>2. /\ suspects = << >> /\ offering = Nothing /\ frames = << >> /\ received = {} /\ openConns = Workers
  BY DEF Fresh
<1>3. \A w \in Workers : worker[w] = "init" /\ task[w] = NoTask /\ outbox[w] = << >> /\ pipe[w] = << >>
  BY DEF Fresh
<1>4. InFlight = {} /\ Elsewhere = {}
  <2>1. InFlight = {}
    BY <1>1, <1>2 DEF InFlight
  <2>2. QED
    BY <1>1, <1>2, <2>1 DEF Elsewhere
<1>5. ReaderTypes
  BY <1>2 DEF ReaderTypes
<1>6. WorkerTypes
  BY <1>1 DEF Fresh, WorkerTypes, WorkerStates
<1>7. \A w \in Workers : Fits(<< >>, << >>, NoTask, "init", w, Workers)
  BY <1>1 DEF Fits
<1>8. \A w \in Workers : FitsIn(w)
  BY <1>2, <1>3, <1>7 DEF FitsIn
<1>9. OnTheWay
  BY <1>1, <1>2, <1>4 DEF OnTheWay
<1>10. Live = Workers
  BY <1>3 DEF Live, Living
<1>11. \A w \in Workers : Hands[w] = {}
  BY <1>1, <1>3 DEF Hands, HandOf, Hand
<1>12. PICK h : h = Hands
  OBVIOUS
<1>13. batches \in Seq(Seq(Files)) /\ batches # << >> /\ \A w \in Procs(batches) : h[w] = {}
  BY <1>11, <1>12 DEF FileTypes, Workers
<1>14. Sound(Dealt(batches), Procs(batches), 1..Len(batches), {}, Procs(batches), h)
  BY <1>13, DealtSound
<1>15. Bounded(Dealt(batches), Procs(batches))
  BY <1>13, <1>14, DealtSound
<1>16. Sound(disp, Workers, BatchIds, Elsewhere, Live, Hands)
  BY <1>4, <1>10, <1>12, <1>14 DEF Fresh, Workers, BatchIds
<1>17. QueueBound
  BY <1>15 DEF Fresh, Workers, Bounded, QueueBound
<1>18. QED
  BY <1>5, <1>6, <1>8, <1>9, <1>16, <1>17

\* The files of a round that begins are neither ingested nor reported.
LEMMA RetrySteps ==
    ASSUME StageInv, StageRetries
    PROVE  StageInv'
<1>1. /\ Running /\ FileTypes /\ NoDoubleIngest /\ lost' = Reported /\ ~NoProgress /\ outcome' = "run"
      /\ batches' = RetryBatches /\ RetryBatches # << >> /\ round' = round + 1
      /\ ingested' = ingested /\ errored' = errored /\ received' = {}
  BY DEF StageInv, StageRetries, StageOver
<1>2. PICK S, U : S = FilesIn(Suspects) /\ U = FilesIn(Unfinished)
  OBVIOUS
<1>3. /\ lost' \in [died : SUBSET Files, noworker : SUBSET Files]
      /\ FilesLost' = FilesLost \cup (IF round = 1 THEN {} ELSE S)
      /\ NoDoubleIngest'
  BY <1>1, <1>2, ReportedFiles
<1>4. /\ RetryBatches \in Seq(Seq(Files)) /\ OnceEach(RetryBatches)
      /\ FilesOf(RetryBatches) = (IF round = 1 THEN S ELSE {}) \cup U
  BY <1>1, <1>2, ParsedAgain
<1>5. FileTypes'
  BY <1>1, <1>3, <1>4 DEF FileTypes
<1>6. /\ S \cap U = {} /\ \A f \in S \cup U : ingested[f] = 0 /\ f \notin FilesLost
      /\ \A f \in FilesOf(Batches) : f \in S \cup U \/ ingested[f] = 1 \/ f \in errored \/ f \in FilesLost
  BY <1>1, <1>2, MissingFiles
<1>7. \A f : f \in FilesOf(RetryBatches) <=> \E b \in BatchIds' : f \in Range(batches'[b])
  <2>1. DOMAIN RetryBatches = BatchIds'
    BY <1>1, <1>4 DEF BatchIds
  <2>2. \A f : f \in FilesOf(RetryBatches) <=> \E b \in DOMAIN RetryBatches : f \in Range(RetryBatches[b])
    BY DEF FilesOf, ToSet, Range
  <2>3. QED
    BY <1>1, <2>1, <2>2
<1>8. FilesOpen'
  <2>1. OnceEach(batches')
    BY <1>1, <1>4
  <2>2. \A f \in FilesOf(RetryBatches) : ingested'[f] = 0 /\ f \notin FilesLost'
    BY <1>1, <1>3, <1>4, <1>6
  <2>3. \A b \in BatchIds' : \A f \in Range(batches'[b]) : ingested'[f] = 0 /\ f \notin FilesLost'
    BY <1>7, <2>2
  <2>4. \A f \in FilesOf(Batches) : f \in FilesOf(RetryBatches) \/ ingested'[f] = 1 \/ f \in errored' \/ f \in FilesLost'
    BY <1>1, <1>3, <1>4, <1>6
  <2>5. \A f \in FilesOf(Batches) : (\E b \in BatchIds' : f \in Range(batches'[b]))
                                      \/ ingested'[f] = 1 \/ f \in errored' \/ f \in FilesLost'
    BY <1>7, <2>4
  <2>6. QED
    BY <1>1, <2>1, <2>3, <2>5 DEF FilesOpen
<1>9. Fresh'
  BY <1>1 DEF StageRetries, Fresh, Workers
<1>10. /\ ReaderTypes' /\ WorkerTypes' /\ (\A w \in Workers : FitsIn(w))'
       /\ Sound(disp, Workers, BatchIds, Elsewhere, Live, Hands)'
       /\ OnTheWay' /\ QueueBound'
  BY <1>5, <1>9, RoundBegins, PTL
<1>11. AccountedFor'
  BY <1>1 DEF AccountedFor
<1>12. QED
  BY <1>1, <1>3, <1>5, <1>8, <1>10, <1>11 DEF StageInv, Running

LEMMA StageInit ==
    Init => StageInv
<1> SUFFICES ASSUME Init PROVE StageInv
  OBVIOUS
<1>1. /\ batches = Batches /\ round = 1 /\ received = {} /\ outcome = "run"
      /\ ingested = [f \in Files |-> 0] /\ errored = {} /\ lost = [died |-> {}, noworker |-> {}]
  BY DEF Init
<1>2. FileTypes
  BY <1>1, StageAssumptions DEF FileTypes
<1>3. Fresh
  BY DEF Init, Fresh, Workers
<1>4. FilesLost = {}
  BY <1>1 DEF FilesLost
<1>5. NoDoubleIngest /\ AccountedFor
  BY <1>1, <1>4 DEF NoDoubleIngest, AccountedFor
<1>6. OnceEach(batches)
  <2>1. \A i \in DOMAIN Batches : IsInjective(Batches[i])
    BY NoFileTwice DEF IsInjective
  <2>2. \A i, j \in DOMAIN Batches : i # j => Range(Batches[i]) \cap Range(Batches[j]) = {}
    BY NoFileTwice DEF Range
  <2>3. QED
    BY <1>1, <2>1, <2>2 DEF OnceEach
<1>7. DOMAIN batches = BatchIds /\ \A b \in BatchIds : Range(batches[b]) \subseteq Files
  <2>1. DOMAIN batches = BatchIds /\ \A b \in BatchIds : batches[b] \in Seq(Files)
    BY <1>2 DEF FileTypes, BatchIds
  <2>2. QED
    BY <2>1, RangeOfSeq
<1>8. FilesOpen
  <2>1. \A f \in FilesOf(Batches) : \E b \in BatchIds : f \in Range(batches[b])
    BY <1>1, <1>7 DEF FilesOf, ToSet, Range
  <2>2. \A b \in BatchIds : \A f \in Range(batches[b]) : ingested[f] = 0 /\ f \notin FilesLost
    BY <1>1, <1>4, <1>7
  <2>3. QED
    BY <1>1, <1>6, <2>1, <2>2 DEF FilesOpen
<1>9. Running
  BY <1>2, <1>3, <1>8, RoundBegins DEF Running
<1>10. QED
  BY <1>2, <1>5, <1>9 DEF StageInv

LEMMA StageStep ==
    StageInv /\ [Next]_vars => StageInv'
<1> SUFFICES ASSUME StageInv, [Next]_vars PROVE StageInv'
  OBVIOUS
<1>1. ASSUME NEW w \in 1..NumWorkers, InWorker(w), ParserStep(w) \/ SerializerStep(w) \/ WorkerFault(w)
      PROVE  StageInv'
  BY <1>1, WorkerSteps
<1>2. ASSUME NEW w \in 1..NumWorkers, ReaderStep(w)
      PROVE  StageInv'
  BY <1>2, ReaderSteps
<1>3. CASE ReaderOffer
  BY <1>3, OfferSteps
<1>4. ASSUME NEW b \in 1..Len(batches), Ingest(b) \/ IngestFails(b)
      PROVE  StageInv'
  BY <1>4, IngestSteps
<1>5. CASE StageRaises
  <2>1. /\ outcome' = "raised" /\ batches' = batches /\ round' = round
        /\ ingested' = ingested /\ errored' = errored /\ lost' = lost
    BY <1>5 DEF StageRaises, roundVars, resultVars
  <2>2. QED
    BY <2>1, OverSteps
<1>6. CASE StageReturns
  BY <1>6, ReturnSteps
<1>7. CASE StageRetries
  BY <1>7, RetrySteps
<1>8. CASE DeadlineHit
  <2>1. /\ outcome' \in {"raised", "deadline"} /\ batches' = batches /\ round' = round
        /\ ingested' = ingested /\ errored' = errored /\ lost' = lost
    BY <1>8 DEF DeadlineHit, roundVars
  <2>2. outcome' \notin {"run", "done"}
    BY <2>1
  <2>3. QED
    BY <2>1, <2>2, OverSteps
<1>9. CASE UNCHANGED vars
  <2>1. UNCHANGED <<round, batches, disp, openConns, suspects, offering, frames, worker, task, outbox, pipe,
                    received, ingested, errored, lost, outcome>>
    BY <1>9 DEF vars, roundVars, readerVars, workerVars, resultVars
  <2>2. /\ Workers' = Workers /\ BatchIds' = BatchIds /\ InFlight' = InFlight /\ FilesLost' = FilesLost
    BY <2>1 DEF Workers, BatchIds, InFlight, FilesLost
  <2>3. FileTypes' /\ NoDoubleIngest' /\ AccountedFor'
    BY <2>1, <2>2 DEF StageInv, FileTypes, NoDoubleIngest, AccountedFor
  <2>4. ASSUME outcome = "run" PROVE Running'
    <3>1. Running
      BY <2>4 DEF StageInv
    <3>2. ReaderTypes' /\ OnTheWay' /\ Elsewhere' = Elsewhere
      BY <2>1, <3>1, WayStays DEF Running
    <3>3. /\ WorkerTypes' /\ (\A v \in Workers : FitsIn(v))' /\ QueueBound'
          /\ Sound(disp, Workers, BatchIds, Elsewhere, Live, Hands)'
      BY <2>1, <3>1, <3>2, StaffStays
    <3>4. FilesOpen'
      BY <2>1, <2>2, <3>1 DEF Running, FilesOpen
    <3>5. QED
      BY <3>2, <3>3, <3>4 DEF Running
  <2>5. QED
    BY <2>1, <2>3, <2>4 DEF StageInv
<1>10. QED
  BY <1>1, <1>2, <1>3, <1>4, <1>5, <1>6, <1>7, <1>8, <1>9 DEF Next, MainStep, Finished

(***************************************************************************)
(* The places of a batch are counted.                                      *)
(***************************************************************************)
LEMMA TimesIn ==
    ASSUME NEW s \in Seq(Nat), IsInjective(s), NEW b
    PROVE  Cardinality({i \in DOMAIN s : s[i] = b}) = IF b \in Range(s) THEN 1 ELSE 0
<1>1. PICK P : P = {i \in DOMAIN s : s[i] = b}
  OBVIOUS
<1>2. CASE b \in Range(s)
  <2>1. PICK i \in DOMAIN s : s[i] = b
    BY <1>2 DEF Range
  <2>2. P = {i}
    BY <1>1, <2>1 DEF IsInjective
  <2>3. QED
    BY <1>1, <1>2, <2>2, FS_Singleton
<1>3. CASE b \notin Range(s)
  <2>1. P = {}
    BY <1>1, <1>3 DEF Range
  <2>2. QED
    BY <1>1, <1>3, <2>1, FS_EmptySet
<1>4. QED
  BY <1>2, <1>3

\* The places of b in the lists of the workers.
Seats(W, a, b) ==
    {wi \in W \X (1..TasksAhead) : wi[2] \in DOMAIN a[wi[1]] /\ a[wi[1]][wi[2]] = b}

LEMMA TimesAssigned ==
    ASSUME NEW W, NEW a \in [W -> Seq(Nat)], NEW b,
           \A w \in W : IsInjective(a[w]) /\ Len(a[w]) <= TasksAhead,
           \A v, w \in W : v # w => Range(a[v]) \cap Range(a[w]) = {}
    PROVE  Cardinality(Seats(W, a, b)) = IF \E w \in W : b \in Range(a[w]) THEN 1 ELSE 0
<1>1. PICK P : P = Seats(W, a, b)
  OBVIOUS
<1>2. \A x \in P : \E w \in W, i \in 1..TasksAhead : x = <<w, i>> /\ i \in DOMAIN a[w] /\ a[w][i] = b
  BY <1>1 DEF Seats
<1>3. \A w \in W : DOMAIN a[w] = 1..Len(a[w]) /\ Len(a[w]) \in Nat
  OBVIOUS
<1>4. ASSUME NEW w \in W, NEW i \in DOMAIN a[w], a[w][i] = b
      PROVE  <<w, i>> \in P
  <2>1. i \in 1..TasksAhead
    BY <1>3, StageAssumptions
  <2>2. QED
    BY <1>1, <1>4, <2>1 DEF Seats
<1>5. CASE \E w \in W : b \in Range(a[w])
  <2>1. PICK w \in W : b \in Range(a[w])
    BY <1>5
  <2>2. PICK i \in DOMAIN a[w] : a[w][i] = b
    BY <2>1 DEF Range
  <2>3. ASSUME NEW x \in P PROVE x = <<w, i>>
    <3>1. PICK v \in W, j \in 1..TasksAhead : x = <<v, j>> /\ j \in DOMAIN a[v] /\ a[v][j] = b
      BY <1>2
    <3>2. v = w
      BY <2>1, <3>1 DEF Range
    <3>3. j = i
      BY <2>2, <3>1, <3>2 DEF IsInjective
    <3>4. QED
      BY <3>1, <3>2, <3>3
  <2>4. P = {<<w, i>>}
    BY <1>4, <2>2, <2>3
  <2>5. QED
    BY <1>1, <1>5, <2>4, FS_Singleton
<1>6. CASE ~ \E w \in W : b \in Range(a[w])
  <2>1. P = {}
    BY <1>2, <1>6 DEF Range
  <2>2. QED
    BY <1>1, <1>6, <2>1, FS_EmptySet
<1>7. QED
  BY <1>5, <1>6

LEMMA CustodyHolds ==
    Running => Custody
<1> SUFFICES ASSUME Running PROVE Custody
  OBVIOUS
<1>1. PICK d, E : d = disp /\ E = Elsewhere
  OBVIOUS
<1>2. d \in Disps(Workers) /\ OnePlace(d, Workers, BatchIds, E)
  BY <1>1 DEF Running, Sound
<1>3. d.pending \in Seq(Nat) /\ d.assigned \in [Workers -> Seq(Nat)] /\ suspects \in Seq(Nat) /\ IsInjective(suspects)
  BY <1>2 DEF Disps, Running, ReaderTypes, OnTheWay
<1>4. ASSUME NEW b \in BatchIds
      PROVE  Cardinality({i \in DOMAIN disp.pending : disp.pending[i] = b})
             + Cardinality({wi \in Workers \X (1..TasksAhead) :
                              /\ wi[2] \in DOMAIN disp.assigned[wi[1]]
                              /\ disp.assigned[wi[1]][wi[2]] = b})
             + Cardinality({i \in DOMAIN suspects : suspects[i] = b})
             + (IF b \in InFlight THEN 1 ELSE 0)
             + (IF b \in received THEN 1 ELSE 0) = 1
  <2>1. PICK p, a, s : p = d.pending /\ a = d.assigned /\ s = suspects
    OBVIOUS
  <2>2. PICK P, A, S : /\ P = Cardinality({i \in DOMAIN p : p[i] = b})
                       /\ A = Cardinality(Seats(Workers, a, b))
                       /\ S = Cardinality({i \in DOMAIN s : s[i] = b})
    OBVIOUS
  <2>3. P = IF b \in Range(p) THEN 1 ELSE 0
    <3>1. p \in Seq(Nat) /\ IsInjective(p)
      BY <1>2, <1>3, <2>1 DEF OnePlace
    <3>2. QED
      BY <2>2, <3>1, TimesIn
  <2>4. S = IF b \in Range(s) THEN 1 ELSE 0
    BY <1>3, <2>1, <2>2, TimesIn
  <2>5. A = IF \E w \in Workers : b \in Range(a[w]) THEN 1 ELSE 0
    <3>1. \A w \in Workers : IsInjective(a[w]) /\ Len(a[w]) <= TasksAhead
      BY <1>1, <1>2, <2>1 DEF OnePlace, Running, QueueBound
    <3>2. \A v, w \in Workers : v # w => Range(a[v]) \cap Range(a[w]) = {}
      BY <1>2, <2>1 DEF OnePlace
    <3>3. QED
      BY <1>3, <2>1, <2>2, <3>1, <3>2, TimesAssigned
  <2>6. /\ b \in Range(p) => b \notin E /\ \A w \in Workers : b \notin Range(a[w])
        /\ (\E w \in Workers : b \in Range(a[w])) => b \notin E
        /\ b \in Range(p) \/ (\E w \in Workers : b \in Range(a[w])) \/ b \in E
    BY <1>2, <2>1 DEF OnePlace
  <2>7. /\ b \in E <=> b \in Range(s) \/ b \in InFlight \/ b \in received
        /\ ~(b \in Range(s) /\ b \in InFlight) /\ ~(b \in Range(s) /\ b \in received)
        /\ ~(b \in InFlight /\ b \in received)
    BY <1>1, <2>1 DEF Elsewhere, Running, OnTheWay
  <2>8. P + A + S + (IF b \in InFlight THEN 1 ELSE 0) + (IF b \in received THEN 1 ELSE 0) = 1
    <3>1. CASE b \in Range(p)
      BY <2>3, <2>4, <2>5, <2>6, <2>7, <3>1
    <3>2. CASE \E w \in Workers : b \in Range(a[w])
      BY <2>3, <2>4, <2>5, <2>6, <2>7, <3>2
    <3>3. CASE b \in E
      BY <2>3, <2>4, <2>5, <2>6, <2>7, <3>3
    <3>4. QED
      BY <2>6, <3>1, <3>2, <3>3
  <2>9. QED
    BY <1>1, <2>1, <2>2, <2>8 DEF Seats
<1>5. QED
  BY <1>4 DEF Custody

(***************************************************************************)
(* The results.                                                            *)
(***************************************************************************)
\* A batch is in one place only, pending, with one worker, blamed, on its way
\* or received, through the deaths that ReadEOF handles and the retries.
THEOREM BatchesInOnePlace == Spec => []Custody
<1>1. StageInv => Custody
  <2>1. CASE outcome = "run"
    BY <2>1, CustodyHolds DEF StageInv
  <2>2. CASE outcome # "run"
    BY <2>2 DEF Custody
  <2>3. QED
    BY <2>1, <2>2
<1>2. QED
  BY <1>1, StageInit, StageStep, PTL DEF Spec

\* No file is given to the ingest callback twice with success, and none that is
\* reported as lost was: what is parsed again after a death did not arrive.
THEOREM FilesIngestedOnce == Spec => []NoDoubleIngest
<1>1. StageInv => NoDoubleIngest
  BY DEF StageInv
<1>2. QED
  BY <1>1, StageInit, StageStep, PTL DEF Spec

\* When the stage returns, every file is ingested or has an error or a loss
\* reported.
THEOREM NoFileDisappears == Spec => []AccountedFor
<1>1. StageInv => AccountedFor
  BY DEF StageInv
<1>2. QED
  BY <1>1, StageInit, StageStep, PTL DEF Spec
=============================================================================
