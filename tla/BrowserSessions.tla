--------------------------- MODULE BrowserSessions ---------------------------
(***************************************************************************)
(* Workspace sessions in several browser windows (session_manager.js, the  *)
(* saving part of state.js, the transfers of components/tabs.js).          *)
(*                                                                         *)
(* A session is a record in localStorage and is held by at most one        *)
(* window, which keeps its tabs in memory and saves them with a delay.     *)
(* Windows talk over a BroadcastChannel: who opens a session claims it,    *)
(* and the window that held it signs out when it hears so. Tabs move from  *)
(* session to session by drag, by an own window, or by a push: the window  *)
(* that holds the target takes the tab, or, if none answers in time, the   *)
(* tab is written into the stored record.                                  *)
(***************************************************************************)
EXTENDS Naturals, Sequences, SequencesExt, FiniteSets

CONSTANTS
    Windows,
    Sessions,       \* ids of sessions, stored or still to be created
    Names,          \* what a tab shows
    Copies,         \* ids a tab may have had
    MaxActs,        \* what the user does, to pages, sessions and tabs
    None

ASSUME SessionAssumption == None \notin Sessions

VARIABLES
    stored,     \* session -> its tabs in localStorage; unlisted ones are not in the domain
    unused,     \* session ids not given out
    page,       \* "none", "loading", "mounting" (no TabsComponent yet) or "ready"
    pin,        \* sessionStorage of the window, survives a reload
    holds,      \* activeSessionId
    tabs,       \* the tabs of its panes
    dirty,      \* a save is pending (_saveTimer)
    pending,    \* pendingPushes
    timers,     \* <<tab, session>>: pushes whose time runs
    inbox,      \* messages of the channel not handled yet
    acts,       \* what the user may still do
    closed,     \* what the user closed or deleted
    settled     \* no session changed hands while a tab was on its way to it,
                \* and no tab was pushed again before its time ran out

sessionVars == <<stored, unused, page, pin, holds, tabs, dirty, pending, timers, inbox, acts,
          closed, settled>>
windowVars == <<pending, timers>>
historyVars == <<acts, closed, settled>>

Tabs == Names \X (1..Copies)
Name(t) == t[1]

\* One session with every tab and one that is empty; every window shows a session
\* of its own, saved, or is not open.
SessionsInit ==
    /\ \E full, empty \in Sessions :
          /\ full # empty
          /\ stored = [s \in {full, empty} |-> IF s = full THEN {<<n, 1>> : n \in Names} ELSE {}]
          /\ unused = Sessions \ {full, empty}
    /\ holds \in [Windows -> DOMAIN stored \cup {None}]
    /\ \A v, w \in Windows : v # w /\ holds[v] # None => holds[v] # holds[w]
    /\ pin = holds
    /\ page = [w \in Windows |-> IF holds[w] = None THEN "none" ELSE "ready"]
    /\ tabs = [w \in Windows |-> IF holds[w] = None THEN {} ELSE stored[holds[w]]]
    /\ dirty = [w \in Windows |-> FALSE]
    /\ pending = [w \in Windows |-> {}]
    /\ timers = [w \in Windows |-> {}]
    /\ inbox = [w \in Windows |-> <<>>]
    /\ acts = MaxActs
    /\ closed = {}
    /\ settled = TRUE

-----------------------------------------------------------------------------
(***************************************************************************)
(* Messages. A window hears the others in the order they are sent.         *)
(***************************************************************************)
Claim(s) == [type |-> "takeover", session |-> s]
Gone(s) == [type |-> "gone", session |-> s]
Offer(t, s, w) == [type |-> "push", tab |-> t, to |-> s, from |-> w]
Accepted(t, w) == [type |-> "accepted", tab |-> t, source |-> w]

\* The channel is opened, and loadState called, when the scripts of a page run.
Listens(w) == page[w] \in {"mounting", "ready"}

Sent(boxes, w, m) ==
    [v \in Windows |-> IF v # w /\ Listens(v) THEN Append(boxes[v], m) ELSE boxes[v]]

Handled(w) == [inbox EXCEPT ![w] = Tail(@)]

Heard(w, type) == inbox[w] # <<>> /\ Head(inbox[w]).type = type

Acts == acts > 0 /\ acts' = acts - 1

\* The user acts in a window that has drawn its tabs, and later than the pages
\* have handled what they were told: messages take milliseconds, a click does not.
Gesture(w) ==
    /\ page[w] = "ready"
    /\ \A v \in Windows : inbox[v] = <<>>
    /\ Acts

(***************************************************************************)
(* Saving. A window without a session writes nothing.                      *)
(***************************************************************************)
Touched(w) == [dirty EXCEPT ![w] = holds[w] # None]

\* localStorage.setItem: the record of s is written.
SetItem(items, s, record) == [r \in DOMAIN items \cup {s} |-> IF r = s THEN record ELSE items[r]]

Flushed(w) == IF dirty[w] /\ holds[w] # None THEN SetItem(stored, holds[w], tabs[w]) ELSE stored

FlushState(w) ==
    /\ dirty[w]
    /\ stored' = Flushed(w)
    /\ dirty' = [dirty EXCEPT ![w] = FALSE]
    /\ UNCHANGED <<unused, page, pin, holds, tabs, windowVars, inbox, historyVars>>

\* A tab keeps its id unless the session has one with it.
IdsInUse ==
    UNION ({stored[s] : s \in DOMAIN stored} \cup {tabs[w] \cup {p[1] : p \in timers[w]} : w \in Windows})
    \cup {m.tab : m \in {n \in UNION {ToSet(inbox[w]) : w \in Windows} : n.type \in {"push", "accepted"}}}

FreshIds(t) == {u \in Tabs : Name(u) = Name(t) /\ u \notin IdsInUse}
AsIdIn(t, others) ==
    IF t \notin others THEN t ELSE CHOOSE u \in FreshIds(t) : \A v \in FreshIds(t) : u[2] <= v[2]
HasId(t, others) == t \in others => FreshIds(t) # {}

-----------------------------------------------------------------------------
(***************************************************************************)
(* Entering and leaving a session.                                         *)
(***************************************************************************)
OnItsWay(s) ==
    \E w \in Windows :
        \/ \E p \in timers[w] : p[2] = s
        \/ \E m \in ToSet(inbox[w]) : m.type = "push" /\ m.to = s

HeldByAnother(s, w) == \E v \in Windows \ {w} : holds[v] = s

\* pinSessionToWindow and adoptSession: the window takes over what the record
\* held, saves it, and claims the session. `base` is the storage once the pending
\* save of the session that is left is written.
Enter(w, s, record, base) ==
    /\ stored' = base
    /\ pin' = [pin EXCEPT ![w] = s]
    /\ holds' = [holds EXCEPT ![w] = s]
    /\ tabs' = [tabs EXCEPT ![w] = record]
    /\ dirty' = [dirty EXCEPT ![w] = TRUE]
    /\ settled' = (settled /\ ~HeldByAnother(s, w) /\ ~OnItsWay(s) /\ ~(dirty[w] /\ holds[w] = s))

\* loadSession reads the record before that save.
LoadSession(w, s) == Enter(w, s, stored[s], Flushed(w))

\* A window that is left without a session enters the only one there is, unless
\* presence says that another window has it. Presence is a hint: heartbeats of
\* hidden windows are late, and a killed window counts for half a minute.
OnlyOne(s, base) == DOMAIN base = {s}

NoSession(w) ==
    /\ holds' = [holds EXCEPT ![w] = None]
    /\ pin' = [pin EXCEPT ![w] = None]
    /\ dirty' = [dirty EXCEPT ![w] = FALSE]

\* A page is opened, reloaded, or restored by the browser.
OpenPage(w) ==
    /\ page[w] = "none" /\ Acts
    /\ page' = [page EXCEPT ![w] = "loading"]
    /\ UNCHANGED <<stored, unused, pin, holds, tabs, dirty, windowVars, inbox, closed, settled>>

\* loadState: the session pinned to the window, if it still exists, or the only
\* one, or a first one.
Rehydrate(w) ==
    /\ page[w] = "loading"
    /\ page' = [page EXCEPT ![w] = "mounting"]
    /\ \/ \E s \in DOMAIN stored :
             /\ pin[w] \in DOMAIN stored \/ OnlyOne(s, stored)
             /\ pin[w] \in DOMAIN stored => s = pin[w]
             /\ LoadSession(w, s)
             /\ inbox' = Sent(inbox, w, Claim(s))
             /\ UNCHANGED unused
       \/ \E s \in unused :
             /\ DOMAIN stored = {}
             /\ unused' = unused \ {s}
             /\ Enter(w, s, {}, SetItem(stored, s, {}))
             /\ inbox' = Sent(inbox, w, Claim(s))
    /\ UNCHANGED <<windowVars, acts, closed>>

\* The page shows the session picker.
NothingPinned(w) ==
    /\ page[w] = "loading" /\ pin[w] \notin DOMAIN stored /\ DOMAIN stored # {}
    /\ page' = [page EXCEPT ![w] = "mounting"]
    /\ UNCHANGED <<stored, unused, pin, holds, tabs, dirty, windowVars, inbox, historyVars>>

\* The server has been asked for its tokens and versions, and the tabs are shown.
Mount(w) ==
    /\ page[w] = "mounting"
    /\ page' = [page EXCEPT ![w] = "ready"]
    /\ UNCHANGED <<stored, unused, pin, holds, tabs, dirty, windowVars, inbox, historyVars>>

OpenSession(w, s) ==
    /\ Gesture(w) /\ s \in DOMAIN stored
    /\ LoadSession(w, s)
    /\ inbox' = Sent(inbox, w, Claim(s))
    /\ UNCHANGED <<unused, page, windowVars, closed>>

NewSession(w, s) ==
    /\ Gesture(w) /\ s \in unused
    /\ unused' = unused \ {s}
    /\ Enter(w, s, {}, SetItem(Flushed(w), s, {}))
    /\ inbox' = Sent(inbox, w, Claim(s))
    /\ UNCHANGED <<page, windowVars, closed>>

\* Mutant: a window with a save pending keeps the session.
IsClaimed_Saved(w) == Head(inbox[w]).session = holds[w] /\ ~dirty[w]

IsClaimed(w) == Head(inbox[w]).session = holds[w]

\* Another window holds the session now: nothing pending is written.
TakenOver(w) ==
    /\ Heard(w, "takeover")
    /\ inbox' = Handled(w)
    /\ IF IsClaimed(w) THEN NoSession(w) ELSE UNCHANGED <<holds, pin, dirty>>
    /\ UNCHANGED <<stored, unused, page, tabs, windowVars, historyVars>>

\* The record goes; the window that deletes its own session leaves it unsaved.
DeleteSession(w, s) ==
    LET left == [r \in DOMAIN stored \ {s} |-> stored[r]]
        shown == UNION {tabs[v] : v \in {u \in Windows : holds[u] = s}}
    IN /\ Gesture(w) /\ s \in DOMAIN stored
       /\ closed' = closed \cup {Name(t) : t \in stored[s] \cup shown}
       /\ \/ \E r \in DOMAIN left :
                /\ holds[w] \in {s, None} /\ OnlyOne(r, left)
                /\ Enter(w, r, left[r], left)
                /\ inbox' = Sent(Sent(inbox, w, Gone(s)), w, Claim(r))
          \/ /\ stored' = left
             /\ IF holds[w] = s THEN NoSession(w) ELSE UNCHANGED <<holds, pin, dirty>>
             /\ inbox' = Sent(inbox, w, Gone(s))
             /\ UNCHANGED <<tabs, settled>>
       /\ UNCHANGED <<unused, page, windowVars>>

\* A window whose session was deleted enters the only one left, or shows the
\* picker and holds the deleted session until another is chosen.
HearGone(w) ==
    /\ Heard(w, "gone")
    /\ \/ \E r \in DOMAIN stored :
             /\ page[w] = "ready" /\ holds[w] = Head(inbox[w]).session /\ OnlyOne(r, stored)
             /\ LoadSession(w, r)
             /\ inbox' = Sent(Handled(w), w, Claim(r))
       \/ /\ inbox' = Handled(w)
          /\ UNCHANGED <<stored, pin, holds, tabs, dirty, settled>>
    /\ UNCHANGED <<unused, page, windowVars, acts, closed>>

\* The page goes away; `saves` unless the process is killed.
PageGoes(w, saves) ==
    /\ page[w] # "none" /\ Acts
    /\ stored' = IF saves THEN Flushed(w) ELSE stored
    /\ page' = [page EXCEPT ![w] = "none"]
    /\ holds' = [holds EXCEPT ![w] = None]
    /\ tabs' = [tabs EXCEPT ![w] = {}]
    /\ dirty' = [dirty EXCEPT ![w] = FALSE]
    /\ pending' = [pending EXCEPT ![w] = {}]
    /\ timers' = [timers EXCEPT ![w] = {}]
    /\ inbox' = [inbox EXCEPT ![w] = <<>>]
    /\ settled' = (settled /\ ~OnItsWay(holds[w]) /\ (saves \/ ~dirty[w]))
    /\ UNCHANGED <<unused, pin, closed>>

-----------------------------------------------------------------------------
(***************************************************************************)
(* Tabs.                                                                   *)
(***************************************************************************)
WithoutTab(w, t) == [tabs EXCEPT ![w] = @ \ {t}]

CloseTab(w, t) ==
    /\ Gesture(w) /\ holds[w] # None /\ t \in tabs[w]
    /\ tabs' = WithoutTab(w, t)
    /\ dirty' = Touched(w)
    /\ closed' = closed \cup {Name(t)}
    /\ UNCHANGED <<stored, unused, page, pin, holds, windowVars, inbox, settled>>

\* acceptTransferredTab, and the word to the window the tab comes from.
TakeTab(w, t, source, boxes) ==
    /\ HasId(t, tabs[w])
    /\ tabs' = [tabs EXCEPT ![w] = @ \cup {AsIdIn(t, @)}]
    /\ dirty' = Touched(w)
    /\ inbox' = Sent(boxes, w, Accepted(t, source))

\* Mutant: a window that shows the picker takes tabs.
MayTake_Any(w) == TRUE

MayTake(w) == holds[w] # None

\* A tab is dropped that was dragged out of window v.
DropTab(w, v, t) ==
    /\ Gesture(w) /\ MayTake(w)
    /\ v # w /\ page[v] = "ready" /\ holds[v] # None /\ t \in tabs[v]
    /\ TakeTab(w, t, v, inbox)
    /\ UNCHANGED <<stored, unused, page, pin, holds, windowVars, closed, settled>>

\* The session is saved before the tab is offered.
PushTab(w, t, s) ==
    /\ Gesture(w) /\ holds[w] # None /\ t \in tabs[w]
    /\ s \in DOMAIN stored \ {holds[w]} /\ <<t, s>> \notin timers[w]
    /\ settled' = (settled /\ ~\E p \in timers[w] : p[1] = t)
    /\ stored' = SetItem(stored, holds[w], tabs[w])
    /\ dirty' = [dirty EXCEPT ![w] = FALSE]
    /\ pending' = [pending EXCEPT ![w] = @ \cup {t}]
    /\ timers' = [timers EXCEPT ![w] = @ \cup {<<t, s>>}]
    /\ inbox' = Sent(inbox, w, Offer(t, s, w))
    /\ UNCHANGED <<unused, page, pin, holds, tabs, closed>>

\* The window that holds the target takes the tab, once it shows tabs at all.
TakePushed(w) ==
    /\ Heard(w, "push") /\ page[w] = "ready"
    /\ LET m == Head(inbox[w]) IN
       /\ holds[w] = m.to
       /\ TakeTab(w, m.tab, m.from, Handled(w))
    /\ UNCHANGED <<stored, unused, page, pin, holds, windowVars, historyVars>>

IgnorePushed(w) ==
    /\ Heard(w, "push")
    /\ holds[w] # Head(inbox[w]).to \/ page[w] = "mounting"
    /\ inbox' = Handled(w)
    /\ settled' = (settled /\ holds[w] # Head(inbox[w]).to)
    /\ UNCHANGED <<stored, unused, page, pin, holds, tabs, dirty, windowVars, acts, closed>>

\* The tab was taken: it is closed here, by a page that shows its tabs.
HearAccepted(w) ==
    /\ Heard(w, "accepted")
    /\ inbox' = Handled(w)
    /\ LET m == Head(inbox[w]) IN
       IF m.source = w /\ page[w] = "ready"
       THEN /\ pending' = [pending EXCEPT ![w] = @ \ {m.tab}]
            /\ tabs' = WithoutTab(w, m.tab)
            /\ dirty' = IF m.tab \in tabs[w] THEN Touched(w) ELSE dirty
       ELSE UNCHANGED <<pending, tabs, dirty>>
    /\ UNCHANGED <<stored, unused, page, pin, holds, timers, historyVars>>

\* pushTabToStoredSession
WithTab(s, t) == [stored EXCEPT ![s] = @ \cup {AsIdIn(t, @)}]

\* Nobody answered in time: the tab is written into the stored record, unless
\* it was taken, or closed here, or the session is gone.
PushUnanswered(w, p) ==
    LET t == p[1]  s == p[2] IN
    /\ page[w] # "none" /\ p \in timers[w]
    /\ timers' = [timers EXCEPT ![w] = @ \ {p}]
    /\ pending' = [pending EXCEPT ![w] = @ \ {t}]
    /\ IF t \in pending[w] /\ t \in tabs[w] /\ s \in DOMAIN stored
       THEN /\ HasId(t, stored[s])
            /\ stored' = WithTab(s, t)
            /\ tabs' = WithoutTab(w, t)
            /\ dirty' = Touched(w)
       ELSE UNCHANGED <<stored, tabs, dirty>>
    /\ UNCHANGED <<unused, page, pin, holds, inbox, historyVars>>

\* A tab moves into a session of its own, in a window of its own if the browser
\* lets it open one.
ElevateTab(w, t, s) ==
    /\ Gesture(w) /\ holds[w] # None /\ t \in tabs[w] /\ s \in unused
    /\ unused' = unused \ {s}
    /\ stored' = SetItem(stored, s, {t})
    /\ tabs' = WithoutTab(w, t)
    /\ dirty' = Touched(w)
    /\ \/ \E v \in Windows :
             /\ page[v] = "none"
             /\ page' = [page EXCEPT ![v] = "loading"] /\ pin' = [pin EXCEPT ![v] = s]
       \/ UNCHANGED <<page, pin>>
    /\ UNCHANGED <<holds, windowVars, inbox, closed, settled>>

-----------------------------------------------------------------------------
Hears(w) == TakenOver(w) \/ HearGone(w) \/ TakePushed(w) \/ IgnorePushed(w) \/ HearAccepted(w)

SessionsNext ==
    \E w \in Windows :
        \/ OpenPage(w) \/ Rehydrate(w) \/ NothingPinned(w) \/ Mount(w)
        \/ FlushState(w) \/ Hears(w)
        \/ \E saves \in BOOLEAN : PageGoes(w, saves)
        \/ \E p \in timers[w] : PushUnanswered(w, p)
        \/ \E s \in Sessions : OpenSession(w, s) \/ NewSession(w, s) \/ DeleteSession(w, s)
        \/ \E t \in Tabs :
              \/ CloseTab(w, t)
              \/ \E v \in Windows : DropTab(w, v, t)
              \/ \E s \in Sessions : PushTab(w, t, s) \/ ElevateTab(w, t, s)

SessionsSpec == SessionsInit /\ [][SessionsNext]_sessionVars

-----------------------------------------------------------------------------
(***************************************************************************)
(* Properties.                                                             *)
(***************************************************************************)
\* A session is open in one window at a time (session_manager.js,
\* claimSessionExclusively): two windows hold it only until one of them hears
\* the claim that is on its way to it, however they were opened or reloaded.
OneHolder ==
    \A v, w \in Windows :
        v # w /\ holds[v] # None /\ holds[v] = holds[w] =>
            \E u \in {v, w} : Claim(holds[v]) \in ToSet(inbox[u])

\* A tab that the user did not close is in a window, or in a record that no
\* window is going to overwrite without it, or on its way to the window that
\* holds its session.
Safe(n) ==
    \/ \E w \in Windows : holds[w] # None /\ \E t \in tabs[w] : Name(t) = n
    \/ \E s \in DOMAIN stored : \E t \in stored[s] : Name(t) = n
    \/ \E w \in Windows : \E m \in ToSet(inbox[w]) :
          m.type = "push" /\ Name(m.tab) = n /\ m.to = holds[w]

\* A tab that moves is closed where it was only once it has been taken
\* somewhere, "so it can never be lost between the two" (tabs.js,
\* pushTabToSession).
NeverLost == \A n \in Names \ closed : Safe(n)

\* So it is as long as no session changes hands while a tab is on its way to it:
\* late windows, crossing answers, repeated pushes and windows that were closed
\* at other times lose nothing.
NeverLostWhenSettled == settled => NeverLost
=============================================================================
