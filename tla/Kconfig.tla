------------------------------- MODULE Kconfig -------------------------------
(***************************************************************************)
(* The Kconfig engine (parser/kconfig_ast): a menu is finalized into a     *)
(* model (kconfig_model.py), and the evaluator (kconfig_eval.py, with a    *)
(* twin in the browser, kconfig_engine.js) computes every option's value   *)
(* from what the user chose, writes .config and defconfig files, and reads *)
(* them back the way the conf program of the modelled kernel does.         *)
(*                                                                         *)
(* Options are bool or tristate, values 0 < 1 < 2 stand for n < m < y.     *)
(* Kleene's operators distribute and obey De Morgan's laws, so an          *)
(* expression is its disjunctive normal form: a set of conjunctions, each  *)
(* a set of literals.  The evaluator computes values on demand and keeps   *)
(* them until the next change; dependency loops are rejected when a tree   *)
(* is read, so a pass over the options in menu order, in which every       *)
(* option refers to earlier ones only, computes the same.                  *)
(***************************************************************************)
EXTENDS Integers, FiniteSets, SequencesExt

CONSTANTS
    Trees,   \* the source trees a behaviour may be about: a menu, which is a
             \* sequence of declarations, and the behaviours detected in its conf
    MaxLines \* most lines of a .config written by hand

None == "none"
Unset == -1
Tri == 0..2
Modes == {"yes", "mod", "no", "default"}

Lesser(a, b) == IF a < b THEN a ELSE b
Greater(a, b) == IF a > b THEN a ELSE b
\* The first element of a list of candidates.
Pick(s) == IF s = <<>> THEN None ELSE Head(s)

VARIABLES
    model, \* the finalized declarations, in menu order
    sem,   \* semantics: the behaviours detected in the kernel's sources
    cfg    \* the state of an evaluator
vars == <<model, sem, cfg>>

-----------------------------------------------------------------------------
(* Expressions.                                                            *)

\* No expression: y where it is a condition, n where it is a reverse dependency.
Always == {{}}
Never == {}

Is(n) == <<"is", n>>
Not(n) == <<"not", n>>
\* FOO = y
IsY(n) == <<"isY", n>>

And(e, f) == {c \cup d : c \in e, d \in f}

\* v[n].tri is the value of option n; the constant m is an option's name, too.
LiteralTri(v, l) ==
    CASE l = Is("m") -> 1
      [] l[1] = "is" /\ l # Is("m") -> v[l[2]].tri
      [] l[1] = "not" -> 2 - v[l[2]].tri
      [] l[1] = "isY" -> IF v[l[2]].tri = 2 THEN 2 ELSE 0

ExprTri(v, e) == Max({0} \cup {Min({2} \cup {LiteralTri(v, l) : l \in c}) : c \in e})

-----------------------------------------------------------------------------
(* A declaration has a name, a type, the expression it depends on, the     *)
(* condition of its prompt (Never: no prompt), defaults (value, condition),*)
(* the options it selects and implies (target, condition), the choice it   *)
(* is in, and, for a choice, its members and whether it is optional.       *)

IsChoice(d) == d.members # <<>>
InChoice(d) == d.choice # None
Entry(mn, n) == CHOOSE d \in ToSet(mn) : d.name = n

\* What the dependencies of a declaration come to: a member of a choice
\* depends on the choice, and since 6.11 only on what the choice depends on;
\* a bool member of a tristate choice wants the choice to be y.
Depends(mn, s, d) ==
    IF ~InChoice(d) THEN d.dep
    ELSE LET choice == Entry(mn, d.choice)
             parent == IF "choice_member_parentdep" \in s
                       THEN choice.dep ELSE {{Is(choice.name)}}
             base == And(parent, d.dep)
         IN  IF /\ choice.type = "tristate" /\ d.type # "tristate"
                /\ "no_tristate_choices" \notin s
             THEN And({{IsY(choice.name)}}, base)
             ELSE base

\* Who selects (or implies) a target, and when.
Forced(mn, s, field, target) ==
    UNION {And({{Is(d.name)}}, And(Depends(mn, s, d), p.when)) :
             <<d, p>> \in {x \in ToSet(mn) \X UNION {d[field] : d \in ToSet(mn)} :
                             x[2] \in x[1][field] /\ x[2].target = target}}

\* menu_finalize: the entry the evaluator works on.  Up to 6.10 a choice that
\* is not optional is at least m while its prompt is visible.
Finalized(mn, s, d) ==
    LET dep == Depends(mn, s, d)
        prompt == And(dep, d.prompt)
        rev == IF IsChoice(d) /\ ~d.optional /\ "no_tristate_choices" \notin s
               THEN And(prompt, {{Is("m")}}) ELSE Never
    IN  [name |-> d.name, type |-> d.type, dep |-> dep, prompt |-> prompt,
         defaults |-> [i \in DOMAIN d.defaults |->
             [d.defaults[i] EXCEPT !.when = And(dep, @)]],
         rev |-> rev \cup Forced(mn, s, "selects", d.name),
         implied |-> Forced(mn, s, "implies", d.name),
         choice |-> d.choice, members |-> d.members, optional |-> d.optional]

-----------------------------------------------------------------------------
(* Values.  v has the options computed so far; of a choice it also has     *)
(* which members are shown and which one is selected.                      *)

Names == {d.name : d \in ToSet(model)}
ChoiceNames == {d.name : d \in {e \in ToSet(model) : IsChoice(e)}}
Modern == "choice_priority" \in sem

\* The function that gives each of a sequence's elements its value, element by
\* element.
Table(Op(_), s) == FoldLeft(LAMBDA f, x : f @@ (x :> Op(x)), <<>>, s)
EachName(Op(_)) == Table(Op, [i \in DOMAIN model |-> model[i].name])

Modules(v) == IF "MODULES" \in DOMAIN v THEN v["MODULES"].tri ELSE 0

\* get_type: no m without modules, or in a choice that is y.
IsBool(v, d, vis) ==
    d.type = "bool" \/ Modules(v) = 0 \/ (InChoice(d) /\ vis = 2)

FollowsChoice(d, vis) == InChoice(d) /\ (Modern \/ vis = 2)

\* The visibility of the prompt.
Visibility(v, d) ==
    LET tri == ExprTri(v, d.prompt)
        hidden == /\ "tristate_choice_mod_hidden" \in sem
                  /\ InChoice(d) /\ d.type = "tristate" /\ tri = 1
                  /\ v[d.choice].tri = 2
    IN  IF hidden THEN 0
        ELSE IF tri = 1 /\ (d.type # "tristate" \/ Modules(v) = 0) THEN 2
        ELSE tri

\* The defaults that apply, the first of which is used.
ActiveDefaults(v, d) == SelectSeq(d.defaults, LAMBDA p : ExprTri(v, p.when) # 0)
DefaultTri(v, d) ==
    LET active == ActiveDefaults(v, d)
    IN  IF active = <<>> THEN 0
        ELSE Lesser(ExprTri(v, Head(active).value), ExprTri(v, Head(active).when))

\* The member a choice has by default.
ChoiceDefault(v, d, shown) ==
    LET active == ActiveDefaults(v, d)
        named == SelectSeq([i \in DOMAIN active |-> active[i].value],
                           LAMBDA m : shown[m] # 0)
    IN  Pick(named \o SelectSeq(d.members, LAMBDA m : shown[m] # 0))

\* The member that is y: the user's choice, or the default.
ChosenMember(c, v, d, shown) ==
    LET user == c.chosen[d.name]
    IN  IF user # None /\ shown[user] # 0 THEN user
        ELSE ChoiceDefault(v, d, shown)

\* The same since 6.11: the first shown member in order of priority that the
\* user set to y, the default unless the user set it to n, the first member
\* without a value, the last one in order of priority.
MemberByPriority(c, v, d, shown) ==
    LET Shown(m) == shown[m] # 0
        Wanted(m) == shown[m] # 0 /\ c.user[m] = 2
        New(m) == shown[m] # 0 /\ c.user[m] = Unset
        default == ChoiceDefault(v, d, shown)
    IN  Pick(SelectSeq(c.order[d.name], Wanted)
             \o (IF default # None /\ c.user[default] # 0
                 THEN <<default>> ELSE <<>>)
             \o SelectSeq(d.members, New)
             \o Reverse(SelectSeq(c.order[d.name], Shown)))

Widened(x, bool) == IF x = 1 /\ bool THEN 2 ELSE x

\* What is asked of an option by others: its visibility vis, what it depends on,
\* what selects and implies it, its default.
Demands(v, d, vis, bool) ==
    LET notImplied ==
            \/ InChoice(d)
            \/ "implied_needs_dir_dep" \in sem /\ ExprTri(v, d.dep) = 0
        hasDefault == ~IsChoice(d) /\ ActiveDefaults(v, d) # <<>>
    IN  [vis |-> vis, bool |-> bool,
         dir |-> IF InChoice(d) THEN 2 ELSE Widened(ExprTri(v, d.dep), bool),
         rev |-> IF InChoice(d) THEN 0 ELSE Widened(ExprTri(v, d.rev), bool),
         implied |-> IF notImplied THEN 0 ELSE Widened(ExprTri(v, d.implied), bool),
         hasDefault |-> hasDefault,
         default |-> IF hasDefault THEN DefaultTri(v, d) ELSE 0]

\* The value that demands q give when the user says nothing.
Unasked(d, q) ==
    IF q.implied = 0 \/ IsChoice(d) THEN q.default
    ELSE IF "imply_obeys_dir_dep" \in sem
    THEN Lesser(Greater(q.default, q.implied), q.dir)
    ELSE Greater(q.default, q.implied)

\* sym_calc_value for one option with demands q.
Calculated(c, v, d, q) ==
    LET member == FollowsChoice(d, q.vis)
        byUser == q.vis # 0 /\ c.user[d.name] # Unset
        value ==
            IF member
            THEN IF q.vis # 0 /\ v[d.choice].selected = d.name THEN 2 ELSE 0
            ELSE Greater(IF byUser THEN Lesser(c.user[d.name], q.vis) ELSE Unasked(d, q),
                         q.rev)
        early == "write_on_nonzero_default" \in sem
        writes ==
            \/ q.vis # 0 /\ (early \/ ~member)
            \/ /\ ~member
               /\ \/ q.rev # 0
                  \/ q.hasDefault /\ (q.default # 0 \/ ~early)
                  \/ q.implied # 0 /\ ~IsChoice(d)
            \/ InChoice(d) /\ q.vis # 0 /\ v[d.choice].writes
        forced == "implied_y_forces_y" \in sem /\ q.implied = 2
    IN  [tri |-> Widened(value, q.bool \/ forced),
         vis |-> q.vis, rev |-> q.rev, implied |-> q.implied, bool |-> q.bool,
         writes |-> writes, selected |-> None, shown |-> <<>>]

Computed(c, v, d) ==
    LET vis == IF InChoice(d) THEN v[d.choice].shown[d.name] ELSE Visibility(v, d)
    IN  Calculated(c, v, d, Demands(v, d, vis, IsBool(v, d, vis)))

\* A choice is computed before its members: their prompts are evaluated while
\* it has its own value, and it is n when none of them is shown.
ShownMembers(v, d, own) ==
    Table(LAMBDA m : Visibility(v @@ (d.name :> own), Entry(model, m)), d.members)

WithMembers(c, v, d, own, shown) ==
    LET selected == IF Modern THEN MemberByPriority(c, v, d, shown)
                    ELSE IF own.tri = 2 THEN ChosenMember(c, v, d, shown)
                    ELSE None
    IN  [own EXCEPT !.shown = shown, !.selected = selected,
                    !.tri = IF ~Modern /\ @ = 2 /\ selected = None THEN 0 ELSE @]

ComputedChoice(c, v, d) ==
    LET own == Computed(c, v, d)
    IN  WithMembers(c, v, d, own, ShownMembers(v, d, own))

Values(c) ==
    LET upTo[i \in 0..Len(model)] ==
            IF i = 0 THEN <<>>
            ELSE LET v == upTo[i - 1]
                     d == model[i]
                 IN  v @@ (d.name :> IF IsChoice(d) THEN ComputedChoice(c, v, d)
                                     ELSE Computed(c, v, d))
    IN  upTo[Len(model)]

\* What .config and autoconf.h contain.
Written(v) == [n \in {n \in Names \ ChoiceNames : v[n].writes} |-> v[n].tri]
ConfigValues(c) == Written(Values(c))

-----------------------------------------------------------------------------
(* Setting values.                                                         *)

Promote(order, m) == <<m>> \o SelectSeq(order, LAMBDA x : x # m)

TristateWithinRange_Below(v, d, t) ==
    LET s == v[d.name]
    IN  /\ s.vis # 0 /\ s.vis > s.rev /\ ~(s.bool /\ t = 1)
        /\ IF InChoice(d) /\ s.vis = 2 /\ ~Modern THEN t = 2 ELSE t <= s.vis
TristateWithinRange(v, d, t) ==
    LET s == v[d.name]
    IN  /\ s.vis # 0
        /\ ~(s.bool /\ t = 1)
        /\ s.vis > s.rev
        /\ ~(t = 1 /\ "implied_y_forces_y" \in sem /\ s.implied = 2)
        /\ IF InChoice(d) /\ s.vis = 2 /\ ~Modern THEN t = 2
           ELSE s.rev <= t /\ t <= s.vis

\* sym_set_tristate_value refuses what is out of range, unless it is the value.
Accepts(v, d, t) == v[d.name].tri = t \/ TristateWithinRange(v, d, t)

\* choice_set_value: every shown member is set, and promoted in turn.
ChoiceSetValue(c, v, choice, n) ==
    LET shown == SelectSeq(choice.members, LAMBDA m : v[m].vis # 0)
    IN  [c EXCEPT
           !.user = EachName(LAMBDA m : IF m \in ToSet(shown)
                                        THEN IF m = n THEN 2 ELSE 0
                                        ELSE c.user[m]),
           !.order[choice.name] = FoldLeft(Promote, @, shown)]

SetTristate(c, v, d, t) ==
    IF ~InChoice(d) \/ t # 2 THEN [c EXCEPT !.user[d.name] = t]
    ELSE LET choice == Entry(model, d.choice)
         IN  IF Modern THEN ChoiceSetValue(c, v, choice, d.name)
             ELSE [c EXCEPT
                     !.chosen[d.choice] = d.name,
                     !.user = EachName(LAMBDA m :
                         IF m = d.name THEN t
                         ELSE IF /\ c.user[m] = Unset
                                 /\ \/ m = d.choice
                                    \/ m \in ToSet(choice.members) /\ v[m].vis # 0
                              THEN 0 ELSE c.user[m])]

-----------------------------------------------------------------------------
(* Files.  A line gives an option a value.                                 *)

\* A new evaluator, and what conf_read starts from.
Blank == [user |-> EachName(LAMBDA n : Unset),
          chosen |-> [n \in ChoiceNames |-> None],
          defTri |-> [n \in ChoiceNames |-> Unset],
          order |-> [n \in ChoiceNames |-> Entry(model, n).members]]

LinesFor(v, options) == [i \in DOMAIN options |-> <<options[i].name, v[options[i].name].tri>>]
ConfigLines(v) == LinesFor(v, SelectSeq(model, LAMBDA d : ~IsChoice(d) /\ v[d.name].writes))
WriteConfig(c) == ConfigLines(Values(c))

\* The value an option has when the user says nothing of it.
StringDefault(v, d) ==
    LET val == Greater(DefaultTri(v, d), v[d.name].rev)
        full == IF /\ val = 1
                   /\ d.type = "bool" \/ (~InChoice(d) /\ Modules(v) = 0)
                THEN 2 ELSE val
    IN  Greater(full, v[d.name].implied)

\* savedefconfig leaves out what cannot be changed, what has its default, and
\* the default member of a choice.
IsDefaultMember(v, d) ==
    /\ InChoice(d) /\ ~Entry(model, d.choice).optional
    /\ d.name = ChoiceDefault(v, Entry(model, d.choice), v[d.choice].shown)
    /\ d.type = "bool" /\ v[d.name].tri = 2
Needed(v, d) ==
    /\ ~IsChoice(d) /\ v[d.name].writes /\ v[d.name].vis > v[d.name].rev
    /\ v[d.name].tri # StringDefault(v, d)
    /\ ~IsDefaultMember(v, d)
DefconfigLines(v) == LinesFor(v, SelectSeq(model, LAMBDA d : Needed(v, d)))
WriteDefconfig(c) == DefconfigLines(Values(c))

\* conf_read, a line at a time.  ctri is the largest value of a choice's
\* members so far, flag whether the choice keeps its own value.
ReadLine_Plain(r, line) ==
    IF Entry(model, line[1]).type = "bool" /\ line[2] = 1 THEN r
    ELSE [r EXCEPT !.c.user[line[1]] = line[2],
                   !.ctri = [n \in ChoiceNames |->
                       IF n = Entry(model, line[1]).choice
                       THEN Greater(@[n], line[2]) ELSE @[n]]]
ReadLine(r, line) ==
    LET d == Entry(model, line[1])
        t == line[2]
        ch == d.choice
        read == [r EXCEPT !.c.user[d.name] = t]
    IN  IF d.type = "bool" /\ t = 1 THEN r
        ELSE IF ~InChoice(d) THEN read
        ELSE IF Modern THEN [read EXCEPT !.c.order[ch] = Promote(@, d.name)]
        ELSE [read EXCEPT
                !.flag[ch] = @ /\ ~(t = 1 /\ r.ctri[ch] = 2),
                !.c.chosen[ch] = IF t = 2 THEN d.name ELSE @,
                !.ctri[ch] = Greater(@, t)]

\* What is forgotten at the end of conf_read: choices whose members are not all given lose their
\* value, and when every value is as the file says, values of options that
\* are not visible are dropped (kept since 6.11).
Forgotten(c, flag, v) ==
    LET loses == {n \in ChoiceNames :
            /\ ~Modern
            /\ \/ ~flag[n]
               \/ \E m \in ToSet(Entry(model, n).members) :
                      v[m].vis # 0 /\ c.user[m] = Unset}
        asSaved == \A n \in Names \ ChoiceNames :
            IF v[n].writes THEN c.user[n] = v[n].tri ELSE c.user[n] = Unset
        dropped == {n \in Names :
            /\ ~InChoice(Entry(model, n)) /\ v[n].vis = 0
            /\ asSaved /\ "conf_read_keeps_invisible" \notin sem}
    IN  loses \cup dropped

WithoutUser(c, names) ==
    [c EXCEPT !.user = EachName(LAMBDA n : IF n \in names THEN Unset ELSE c.user[n])]

ConfRead(r) ==
    LET c == IF Modern THEN r.c
             ELSE [r.c EXCEPT
                     !.user = EachName(LAMBDA n :
                         IF n \in ChoiceNames THEN r.ctri[n] ELSE r.c.user[n]),
                     !.defTri = r.ctri]
    IN  WithoutUser(c, Forgotten(c, r.flag, Values(c)))

LoadConfig(lines) ==
    ConfRead(FoldLeft(ReadLine,
                      [c |-> Blank, flag |-> [n \in ChoiceNames |-> TRUE],
                       ctri |-> [n \in ChoiceNames |-> 0]], lines))

\* conf_set_all_new_symbols, for all*config and defconfig.
SetAllNew_NoChoice(c, mode) ==
    LET fill == CASE mode = "yes" -> 2 [] mode = "mod" -> 1 [] mode = "no" -> 0
                  [] mode = "default" -> Unset
    IN  [c EXCEPT !.user = EachName(LAMBDA n :
            IF c.user[n] = Unset /\ n \notin ChoiceNames THEN fill ELSE c.user[n])]
SetAllNew(c, mode) ==
    LET fill == CASE mode = "yes" -> 2 [] mode = "mod" -> 1 [] mode = "no" -> 0
                  [] mode = "default" -> Unset
        filled == EachName(LAMBDA n :
            IF c.user[n] # Unset THEN c.user[n]
            ELSE IF Modern /\ (n \in ChoiceNames \/ InChoice(Entry(model, n))) THEN Unset
            ELSE fill)
    IN  [c EXCEPT !.user = EachName(LAMBDA n :
            IF n \in ChoiceNames /\ ~Modern /\ filled[n] = Unset
            THEN IF c.defTri[n] = Unset THEN 0 ELSE c.defTri[n]
            ELSE filled[n])]

-----------------------------------------------------------------------------
(* Steps: a file loaded as kconfig_service.py and the browser load it, a   *)
(* preset, and a user's changes.  Loading forgets all that was, so a state *)
(* that is reached with a file is reached with the file at first.          *)

Init ==
    \E tree \in Trees :
        /\ model = [i \in DOMAIN tree.menu |->
                       Finalized(tree.menu, tree.sem, tree.menu[i])]
        /\ sem = tree.sem
        /\ cfg = Blank

\* The menu sets the members of a choice, never the choice itself.  v: the values
\* so far.
SetValue(v, n, t) ==
    LET d == Entry(model, n)
    IN  /\ ~IsChoice(d)
        /\ Accepts(v, d, t)
        /\ cfg' = SetTristate(cfg, v, d, t)
        /\ UNCHANGED <<model, sem>>

Load(lines) ==
    /\ cfg = Blank
    /\ cfg' = SetAllNew(LoadConfig(lines), "default")
    /\ UNCHANGED <<model, sem>>

HandWritten == BoundedSeq((Names \ ChoiceNames) \X Tri, MaxLines)

Preset(mode) ==
    /\ cfg = Blank
    /\ cfg' = SetAllNew(Blank, mode)
    /\ UNCHANGED <<model, sem>>

\* Every change starts from the same values v.
Next ==
    \/ \E v \in {Values(cfg)} : \E n \in Names, t \in Tri : SetValue(v, n, t)
    \/ \E lines \in HandWritten : Load(lines)
    \/ \E mode \in Modes : Preset(mode)

Spec == Init /\ [][Next]_vars

-----------------------------------------------------------------------------
(* Properties.                                                             *)

\* A file has lines for the members of a choice only.  They tell its value
\* when a choice that is y has a y and no m, and one that may be n and is m has
\* an m.  The kernels that hide m members of a y choice see to the first.
Recorded(v) ==
    \A d \in {e \in ToSet(model) : IsChoice(e)} :
        LET tris == {v[m].tri : m \in ToSet(d.members)}
        IN  /\ v[d.name].tri = 2 => 2 \in tris /\ 1 \notin tris
            /\ v[d.name].tri = 1 /\ d.optional => 1 \in tris

\* A saved .config, loaded again, gives the values it was saved from: what
\* conf_write leaves out is computed again, whatever the user had chosen for
\* options that are hidden or fixed now (test_written_config_is_a_fixed_point).
SavedIsFixedPoint ==
    Recorded(Values(cfg)) => ConfigValues(LoadConfig(WriteConfig(cfg))) = ConfigValues(cfg)

\* A saved defconfig stands for the whole configuration: loading it brings
\* back every value that savedefconfig left out as a default.
DefconfigRestores ==
    Recorded(Values(cfg)) =>
        ConfigValues(SetAllNew(LoadConfig(WriteDefconfig(cfg)), "default"))
            = ConfigValues(cfg)

\* A change the engine accepts takes effect, also through the rules of
\* choices.  Taking y from the member of a choice is no such change since
\* 6.11: the engine picks a member again.
AcceptedTakesEffect ==
    LET v == Values(cfg)
    IN  \A d \in {e \in ToSet(model) : ~IsChoice(e)}, t \in Tri :
            Accepts(v, d, t) /\ ~(Modern /\ InChoice(d) /\ t = 0)
                => Values(SetTristate(cfg, v, d, t))[d.name].tri = t
=============================================================================
