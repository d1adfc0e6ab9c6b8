------------------------------ MODULE MCKconfig ------------------------------
(***************************************************************************)
(* Source trees for Kconfig: menus, and kernels whose conf is imitated.    *)
(***************************************************************************)
EXTENDS Kconfig

Plain(name, type) ==
    [name |-> name, type |-> type, dep |-> Always, prompt |-> Always,
     defaults |-> <<>>, selects |-> {}, implies |-> {}, choice |-> None,
     members |-> <<>>, optional |-> FALSE]
ModulesOption == [Plain("MODULES", "bool") EXCEPT
                     !.defaults = <<[value |-> Always, when |-> Always]>>]
Member(name, type, choice) == [Plain(name, type) EXCEPT !.choice = choice]

\* A driver selects a library that has a prompt of its own and implies an
\* extra which depends on the library; the last option has no prompt and
\* defaults to the driver.
SelectMenu(implies) == <<
    ModulesOption,
    [Plain("DRV", "tristate") EXCEPT
        !.selects = {[target |-> "LIB", when |-> Always]},
        !.implies = implies],
    Plain("LIB", "tristate"),
    [Plain("EXTRA", "tristate") EXCEPT !.dep = {{Is("LIB")}}],
    [Plain("AUTO", "tristate") EXCEPT
        !.prompt = {{Not("LIB")}},
        !.defaults = <<[value |-> {{Is("DRV")}}, when |-> {{Is("EXTRA")}}]>>] >>

\* A choice of bools behind a bool; one member needs another option, and is
\* the default when it is there.
BoolChoiceMenu == <<
    ModulesOption,
    Plain("NET", "bool"),
    [Plain("MODE", "bool") EXCEPT
        !.dep = {{Is("NET")}},
        !.defaults = <<[value |-> "FAST", when |-> Always]>>,
        !.members = <<"SLOW", "FAST", "OFF">>],
    Member("SLOW", "bool", "MODE"),
    [Member("FAST", "bool", "MODE") EXCEPT !.dep = {{Is("MODULES")}}],
    Member("OFF", "bool", "MODE") >>

\* A choice of tristates, one of which is limited to m by an option, and a
\* bool that can only be had when the choice is y.
TristateChoiceMenu(optional) == <<
    ModulesOption,
    Plain("BUS", "tristate"),
    [Plain("GADGET", "tristate") EXCEPT
        !.members = <<"ETH", "DISK", "RAW">>, !.optional = optional],
    Member("ETH", "tristate", "GADGET"),
    [Member("DISK", "tristate", "GADGET") EXCEPT !.dep = {{Is("BUS")}}],
    Member("RAW", "bool", "GADGET") >>

Imply == {[target |-> "EXTRA", when |-> Always]}

\* The behaviours conf_semantics detects in 3.0 (no imply), 4.14, 5.10 and
\* 6.12 (no choice of tristates).
V3 == {}
V4 == {"write_on_nonzero_default", "tristate_choice_mod_hidden",
       "implied_needs_dir_dep", "implied_y_forces_y"}
V5 == {"write_on_nonzero_default", "tristate_choice_mod_hidden",
       "imply_obeys_dir_dep"}
V6 == {"write_on_nonzero_default", "imply_obeys_dir_dep", "no_tristate_choices",
       "choice_member_parentdep", "choice_priority", "conf_read_keeps_invisible"}

On(menus, kernels) == {[menu |-> m, sem |-> k] : m \in menus, k \in kernels}
AllTrees ==
    On({SelectMenu({})}, {V3}) \cup On({SelectMenu(Imply)}, {V4, V5, V6})
    \cup On({BoolChoiceMenu}, {V3, V4, V5, V6})
    \cup On({TristateChoiceMenu(FALSE), TristateChoiceMenu(TRUE)}, {V3, V4, V5})
=============================================================================
