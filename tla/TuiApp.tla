-------------------------------- MODULE TuiApp --------------------------------
(*****************************************************************************)
(* The management terminal: App of crates/rdg-server/src/tui/app.rs, one     *)
(* process that edits the users, groups, memberships and access rules of     *)
(* the database and the TLS part of the configuration file, while other      *)
(* processes (the gateway, the web UI, further terminals) change the same    *)
(* tables.                                                                   *)
(*                                                                           *)
(* The terminal works on lists it has read before.  A key press runs up to   *)
(* its first query and that query with it; the queries that follow are in    *)
(* todo, one step each, so that the others can come in between.  Any query   *)
(* may fail, and then the error leaves the event loop: the program is over.  *)
(*                                                                           *)
(* Users and groups are never deleted, so their AUTOINCREMENT id is their    *)
(* position.  Typing (Char and Backspace keys) is abstracted to giving the   *)
(* active text field one of its texts; status lines and drawing are left     *)
(* out.  No code writes the sessions table: its list is always empty.        *)
(*****************************************************************************)
EXTENDS Integers, Sequences, FiniteSets, SequencesExt

CONSTANTS UserName, GroupName,
          San,        \* names a user may type for the certificate
          Path,       \* paths a user may type for certificate and key
          RuleText,   \* what is typed for a rule: a sequence of three sets of texts
          Number,     \* the integer each text denotes that parses as one
          InitUsers, InitGroups, InitRules,  \* the rows of the tables at first
          MaxRows,    \* bound: users and groups in their tables
          MaxRules,   \* bound: rules ever created
          MaxKeys,    \* bound: keys pressed
          MaxOthers   \* bound: writes of the other processes

Text == UserName \cup GroupName \cup San \cup Path \cup (UNION {RuleText[i] : i \in 1..3})
        \cup {"", "password", "allow", "deny"}
Rule == [id : Nat, priority : Int, target_host : Text, target_port : Int,
         action : {"allow", "deny"}]
User == [name : UserName, enabled : BOOLEAN]
Config == [sans : Seq(San), cert : Path \cup {""}, key : Path \cup {""}]

\* The rules of the initial table have the ids it gave first.
ASSUME TuiAssumption ==
    /\ InitUsers \in Seq(User) /\ InitGroups \in Seq(GroupName)
    /\ InitRules \subseteq Rule /\ IsFiniteSet(InitRules)
    /\ \A r \in InitRules : r.id \in 1..Cardinality(InitRules)
    /\ \A q, r \in InitRules : q.id = r.id => q = r
    /\ \A t \in DOMAIN Number : Number[t] \in Int

VARIABLES
    \* the database
    users,       \* rows [name, enabled]; the id is the position
    groups,      \* names; the id is the position
    members,     \* user_groups: pairs of a user id and a group id
    rules,       \* acl_rules: a set of rows with their id
    lastRule,    \* the largest id acl_rules ever had (sqlite_sequence)
    file,        \* the TLS part of the configuration file
    \* the terminal
    mode,        \* input_mode, or "Off" before run_manage and after the end
    tab,         \* active_tab
    dialog,      \* dialog
    shown,       \* users, groups and acl_rules as last read, and user_groups
    index,       \* user_index, group_index, acl_index, session_index, tls_san_index
    config,      \* the TLS part of config
    todo,        \* the queries the current key press still has to make
    keys,        \* keys pressed so far
    others       \* writes of other processes so far

dbVars == <<users, groups, members, rules, lastRule>>
uiVars == <<mode, tab, dialog, shown, index, config, todo>>
vars == <<dbVars, file, uiVars, keys, others>>

Tabs == <<"Users", "Groups", "AclRules", "Sessions", "Tls">>
Tab == ToSet(Tabs)
DialogMode == {"AddUser", "AddGroup", "AddAclRule", "AssignGroup", "AddSan", "SetCertPath",
               "SetKeyPath"}

\* DialogField: a text field has no options.
text(value) == [options |-> << >>, selected |-> 0, value |-> value]
select(options) == [options |-> options, selected |-> 0, value |-> options[1]]

NoDialog == [fields |-> << >>, active |-> 1]
DialogState(fields) == [fields |-> fields, active |-> 1]

\* What can stand in text field i of a dialog.
Texts(m, i) ==
    CASE m = "AddUser" /\ i = 1 -> UserName \cup {""}
      [] m = "AddUser" /\ i = 2 -> {"", "password"}
      [] m = "AddGroup"         -> GroupName \cup {""}
      [] m = "AddAclRule"       -> RuleText[i] \cup {""}
      [] m = "AddSan"           -> San \cup {""}
      [] OTHER                  -> Path \cup {""}

NoRows == [users |-> << >>, groups |-> << >>, acl |-> << >>, memberships |-> << >>]

Query(table, user) == [table |-> table, user |-> user]

Init ==
    /\ users = InitUsers /\ groups = InitGroups /\ members = {}
    /\ rules = InitRules /\ lastRule = Cardinality(InitRules)
    /\ config = [sans |-> << >>, cert |-> "", key |-> ""] /\ file = config
    /\ mode = "Off" /\ tab = "Users" /\ dialog = NoDialog
    /\ shown = NoRows /\ index = [t \in Tab |-> 0]
    /\ todo = << >> /\ keys = 0 /\ others = 0

-----------------------------------------------------------------------------
(* Queries of SqliteProvider.                                                *)

\* The column username is UNIQUE, and so is the name of a group.
CanCreateUser(name) == \A u \in DOMAIN users : users[u].name # name
create_user(name) == users' = Append(users, [name |-> name, enabled |-> TRUE])

CanCreateGroup(name) == ~Contains(groups, name)
create_group(name) == groups' = Append(groups, name)

set_user_enabled(u, enabled) == users' = [users EXCEPT ![u].enabled = enabled]

\* INSERT OR IGNORE.
add_user_to_group(u, g) == members' = members \cup {<<u, g>>}

\* Mutant: the primary key without AUTOINCREMENT is the largest id in use plus one.
create_acl_rule_Rowid(r) ==
    LET id == IF rules = {} THEN 1 ELSE Max({q.id : q \in rules}) + 1 IN
    /\ rules' = rules \cup {[r EXCEPT !.id = id]}
    /\ lastRule' = lastRule + 1

\* An AUTOINCREMENT id is never given twice.
create_acl_rule(r) ==
    /\ rules' = rules \cup {[r EXCEPT !.id = lastRule + 1]}
    /\ lastRule' = lastRule + 1

delete_acl_rule(id) == rules' = {r \in rules : r.id # id} /\ UNCHANGED lastRule

\* ORDER BY priority DESC leaves the order of equal priorities open.
get_acl_rules == {s \in SetToSeqs(rules) : IsSorted(s, LAMBDA a, b : a.priority >= b.priority)}

get_user_groups(u) == {g \in DOMAIN groups : <<u, g>> \in members}

-----------------------------------------------------------------------------
(* The end of a key press, and of the program.                               *)

\* should_quit, or an error through every ? up to run_manage.
\* What the process had in memory is gone.
Leave ==
    /\ mode' = "Off" /\ tab' = "Users" /\ dialog' = NoDialog /\ shown' = NoRows
    /\ index' = [t \in Tab |-> 0] /\ config' = file /\ todo' = << >>

\* The last lines of submit_dialog; without an open dialog they change nothing.
Close == mode' = "Normal" /\ dialog' = NoDialog

Ready == mode # "Off" /\ todo = << >>

\* The selection after a row was removed from a list that has n rows left.
Clamp(i, n) == IF i > 0 /\ i >= n THEN (IF n = 0 THEN 0 ELSE n - 1) ELSE i

\* run_manage: load_all makes its first query.
Start ==
    /\ mode = "Off" /\ keys = 0 /\ todo = << >>
    /\ mode' = "Normal"
    /\ todo' = <<Query("users", 0), Query("groups", 0), Query("acl", 0), Query("memberships", 0)>>
    /\ UNCHANGED <<dbVars, file, tab, dialog, shown, index, config, keys, others>>

\* The next query of a key press or of load_all, and what follows the last one.
\* Only handle_delete_action, which runs in Normal mode, clamps acl_index.
Read ==
    /\ todo # << >>
    /\ LET q == Head(todo) IN
        \/ /\ q.table = "users"
           /\ shown' = [shown EXCEPT !.users = users]
           /\ UNCHANGED index
        \/ /\ q.table = "groups"
           /\ shown' = [shown EXCEPT !.groups = groups]
           /\ UNCHANGED index
        \/ /\ q.table = "acl"
           /\ \E s \in get_acl_rules : shown' = [shown EXCEPT !.acl = s]
           /\ index' = IF mode = "Normal"
                       THEN [index EXCEPT !["AclRules"] = Clamp(@, Cardinality(rules))]
                       ELSE index
        \/ /\ q.table = "memberships"
           /\ shown' = [shown EXCEPT !.memberships =
                 [u \in DOMAIN shown.users |->
                    IF q.user \in {0, u} THEN get_user_groups(u)
                    ELSE IF u \in DOMAIN @ THEN @[u] ELSE {}]]
           /\ UNCHANGED index
    /\ todo' = Tail(todo)
    /\ IF todo' = << >> THEN Close ELSE UNCHANGED <<mode, dialog>>
    /\ UNCHANGED <<dbVars, file, tab, config, keys, others>>

\* Some query of the rest fails.
ReadFails == todo # << >> /\ Leave /\ UNCHANGED <<dbVars, file, keys, others>>

-----------------------------------------------------------------------------
(* handle_normal_key.                                                        *)

\* q, Esc or Ctrl-C.
Quit == Leave /\ UNCHANGED <<dbVars, file>>

Turn(delta) ==
    LET i == CHOOSE i \in DOMAIN Tabs : Tabs[i] = tab IN
    /\ tab' = Tabs[((i - 1 + delta) % Len(Tabs)) + 1]
    /\ UNCHANGED <<dbVars, file, mode, dialog, shown, index, config, todo>>

\* Rows of the active tab.
RowCount(t) ==
    CASE t = "Users"    -> Len(shown.users)
      [] t = "Groups"   -> Len(shown.groups)
      [] t = "AclRules" -> Len(shown.acl)
      [] t = "Sessions" -> 0
      [] t = "Tls"      -> Len(config.sans)

\* Mutant: the selection may stand one behind the last row.
Wrap_OffByOne(i, n) == IF i < 0 THEN n - 1 ELSE IF i > n THEN 0 ELSE i

Wrap(i, n) == IF i < 0 THEN n - 1 ELSE IF i >= n THEN 0 ELSE i

move_selection(delta) ==
    /\ RowCount(tab) > 0
    /\ index' = [index EXCEPT ![tab] = Wrap(@ + delta, RowCount(tab))]
    /\ UNCHANGED <<dbVars, file, mode, tab, dialog, shown, config, todo>>

Open(m, fields) ==
    /\ mode' = m
    /\ dialog' = DialogState(fields)
    /\ UNCHANGED <<dbVars, file, tab, shown, index, config, todo>>

start_add_dialog ==
    \/ tab = "Users" /\ Open("AddUser", <<text(""), text("")>>)
    \/ tab = "Groups" /\ Open("AddGroup", <<text("")>>)
    \/ tab = "AclRules" /\ Open("AddAclRule", <<text(""), text(""), text(""),
                                                select(<<"allow", "deny">>)>>)
    \/ tab = "Tls" /\ Open("AddSan", <<text("")>>)

start_assign_group_dialog ==
    /\ tab = "Users"
    /\ shown.users # << >> /\ shown.groups # << >>
    /\ Open("AssignGroup", <<select(shown.groups)>>)

\* The keys e and k.
EditPath ==
    /\ tab = "Tls"
    /\ \/ Open("SetCertPath", <<text(config.cert)>>)
       \/ Open("SetKeyPath", <<text(config.key)>>)

\* The row of the active tab that is shown as selected.
Selected(list) == list[index[tab] + 1]
HasSelected(list) == index[tab] < Len(list)

\* A rule is deleted by the id of the row shown.
DeleteRule ==
    /\ tab = "AclRules" /\ HasSelected(shown.acl)
    /\ delete_acl_rule(Selected(shown.acl).id)
    /\ todo' = <<Query("acl", 0)>>
    /\ UNCHANGED <<users, groups, members, file, mode, tab, dialog, shown, index, config>>

\* A user gets the opposite of the state shown.
ToggleUser ==
    /\ tab = "Users" /\ HasSelected(shown.users)
    /\ set_user_enabled(index[tab] + 1, ~Selected(shown.users).enabled)
    /\ todo' = <<Query("users", 0)>>
    /\ UNCHANGED <<groups, members, rules, lastRule, file, mode, tab, dialog, shown, index, config>>

RemoveSan ==
    /\ tab = "Tls" /\ HasSelected(config.sans)
    /\ config' = [config EXCEPT !.sans = RemoveAt(@, index[tab] + 1)]
    /\ index' = [index EXCEPT ![tab] = Clamp(@, Len(config.sans) - 1)]
    /\ UNCHANGED <<dbVars, file, mode, tab, dialog, shown, todo>>

handle_delete_action == DeleteRule \/ ToggleUser \/ RemoveSan

\* Key r: get_active_sessions, whose result is always empty.
RefreshSessions == tab = "Sessions" /\ UNCHANGED <<dbVars, file, uiVars>>

save_config == tab = "Tls" /\ file' = config /\ UNCHANGED <<dbVars, uiVars>>

\* The first query of d or r, or the write of the file, fails.
NormalFails ==
    /\ \/ tab = "AclRules" /\ HasSelected(shown.acl)
       \/ tab = "Users" /\ HasSelected(shown.users)
       \/ tab \in {"Sessions", "Tls"}
    /\ Quit

handle_normal_key ==
    /\ mode = "Normal"
    /\ \/ Quit \/ Turn(1) \/ Turn(-1) \/ move_selection(1) \/ move_selection(-1)
       \/ start_add_dialog \/ start_assign_group_dialog \/ EditPath
       \/ handle_delete_action \/ RefreshSessions \/ save_config \/ NormalFails

-----------------------------------------------------------------------------
(* handle_dialog_key.                                                        *)

\* Mutant: Esc forgets the mode.
Cancel_KeepMode ==
    /\ dialog' = NoDialog
    /\ UNCHANGED <<dbVars, file, mode, tab, shown, index, config, todo>>

\* Esc.
Cancel == Close /\ UNCHANGED <<dbVars, file, tab, shown, index, config, todo>>

ActiveField == dialog.fields[dialog.active]

next_field ==
    /\ dialog' = [dialog EXCEPT !.active = (@ % Len(dialog.fields)) + 1]
    /\ UNCHANGED <<dbVars, file, mode, tab, shown, index, config, todo>>

\* Left and Right on a select field.
Choose(delta) ==
    /\ ActiveField.options # << >>
    /\ LET i == ActiveField.selected + delta IN
        /\ 0 <= i /\ i < Len(ActiveField.options)
        /\ dialog' = [dialog EXCEPT !.fields[dialog.active] =
                        [@ EXCEPT !.selected = i, !.value = ActiveField.options[i + 1]]]
    /\ UNCHANGED <<dbVars, file, mode, tab, shown, index, config, todo>>

\* Char and Backspace on a text field.
Type ==
    /\ ActiveField.options = << >>
    /\ \E v \in Texts(mode, dialog.active) :
         dialog' = [dialog EXCEPT !.fields[dialog.active].value = v]
    /\ UNCHANGED <<dbVars, file, mode, tab, shown, index, config, todo>>

field_value(i) == dialog.fields[i].value

Wait(query) == todo' = <<query>> /\ UNCHANGED <<mode, tab, dialog, shown, index, config>>

SubmitUser ==
    /\ mode = "AddUser"
    /\ field_value(1) # "" /\ field_value(2) # ""
    /\ CanCreateUser(field_value(1)) /\ Len(users) < MaxRows
    /\ create_user(field_value(1))
    /\ Wait(Query("users", 0))
    /\ UNCHANGED <<groups, members, rules, lastRule, file>>

SubmitGroup ==
    /\ mode = "AddGroup"
    /\ field_value(1) # ""
    /\ CanCreateGroup(field_value(1)) /\ Len(groups) < MaxRows
    /\ create_group(field_value(1))
    /\ Wait(Query("groups", 0))
    /\ UNCHANGED <<users, members, rules, lastRule, file>>

ParsesAs(t, default) == IF t \in DOMAIN Number THEN Number[t] ELSE default

\* The rule of the dialog: what does not parse is priority 0 or any port, and
\* "*" and the empty text are any host and any port (None, here "" and -1).
TypedRule ==
    [id |-> 0, priority |-> ParsesAs(field_value(1), 0),
     target_host |-> IF field_value(2) = "*" THEN "" ELSE field_value(2),
     target_port |-> ParsesAs(field_value(3), -1), action |-> field_value(4)]

SubmitRule ==
    /\ mode = "AddAclRule"
    /\ lastRule < MaxRules
    /\ create_acl_rule(TypedRule)
    /\ Wait(Query("acl", 0))
    /\ UNCHANGED <<users, groups, members, file>>

\* The first group of the chosen name in the list the dialog was opened from.
SubmitMember ==
    /\ mode = "AssignGroup"
    /\ HasSelected(shown.users)
    /\ \E g \in DOMAIN shown.groups :
        /\ shown.groups[g] = field_value(1)
        /\ \A h \in 1..(g - 1) : shown.groups[h] # field_value(1)
        /\ add_user_to_group(index[tab] + 1, g)
    /\ Wait(Query("memberships", index[tab] + 1))
    /\ UNCHANGED <<users, groups, rules, lastRule, file>>

AddSan(sans, san) == IF Contains(sans, san) THEN sans ELSE Append(sans, san)

SubmitConfig ==
    /\ \/ /\ mode = "AddSan" /\ field_value(1) # ""
          /\ config' = [config EXCEPT !.sans = AddSan(@, field_value(1))]
       \/ mode = "SetCertPath" /\ config' = [config EXCEPT !.cert = field_value(1)]
       \/ mode = "SetKeyPath" /\ config' = [config EXCEPT !.key = field_value(1)]
    /\ Close
    /\ UNCHANGED <<dbVars, file, tab, shown, index, todo>>

\* A required text is missing: the dialog stays open.
SubmitRefused ==
    /\ \/ mode = "AddUser" /\ (field_value(1) = "" \/ field_value(2) = "")
       \/ mode \in {"AddGroup", "AddSan"} /\ field_value(1) = ""
    /\ UNCHANGED <<dbVars, file, uiVars>>

\* The insert fails, always when the name is taken.
SubmitFails ==
    /\ \/ mode = "AddUser" /\ field_value(1) # "" /\ field_value(2) # ""
       \/ mode = "AddGroup" /\ field_value(1) # ""
       \/ mode \in {"AddAclRule", "AssignGroup"}
    /\ Quit

submit_dialog ==
    \/ SubmitUser \/ SubmitGroup \/ SubmitRule \/ SubmitMember \/ SubmitConfig
    \/ SubmitRefused \/ SubmitFails

\* Ctrl-C is Quit.
handle_dialog_key ==
    /\ mode \in DialogMode
    /\ \/ Quit \/ Cancel \/ next_field \/ Choose(1) \/ Choose(-1) \/ Type \/ submit_dialog

Key ==
    /\ Ready /\ keys < MaxKeys
    /\ keys' = keys + 1
    /\ handle_normal_key \/ handle_dialog_key
    /\ UNCHANGED others

-----------------------------------------------------------------------------
(* Other processes on the same database: a signup, another terminal.         *)

ElsewhereUsers ==
    /\ \/ \E name \in UserName : CanCreateUser(name) /\ Len(users) < MaxRows /\ create_user(name)
       \/ \E u \in DOMAIN users : set_user_enabled(u, ~users[u].enabled)
    /\ UNCHANGED <<groups, members, rules, lastRule>>

ElsewhereGroups ==
    /\ \/ /\ \E name \in GroupName :
                CanCreateGroup(name) /\ Len(groups) < MaxRows /\ create_group(name)
          /\ UNCHANGED members
       \/ /\ \E u \in DOMAIN users, g \in DOMAIN groups : add_user_to_group(u, g)
          /\ UNCHANGED groups
    /\ UNCHANGED <<users, rules, lastRule>>

ElsewhereRules ==
    /\ \/ \E p \in RuleText[1], a \in {"allow", "deny"} :
            /\ lastRule < MaxRules
            /\ create_acl_rule([id |-> 0, priority |-> ParsesAs(p, 0), target_host |-> "",
                                target_port |-> -1, action |-> a])
       \/ \E r \in rules : delete_acl_rule(r.id)
    /\ UNCHANGED <<users, groups, members>>

Elsewhere ==
    /\ mode # "Off" /\ others < MaxOthers
    /\ others' = others + 1
    /\ ElsewhereUsers \/ ElsewhereGroups \/ ElsewhereRules
    /\ UNCHANGED <<file, uiVars, keys>>

\* The program is over, or has been given all its keys.
Terminated == ((mode = "Off" /\ keys > 0) \/ keys = MaxKeys) /\ UNCHANGED vars

Next == Start \/ Read \/ ReadFails \/ Key \/ Elsewhere \/ Terminated

Spec == Init /\ [][Next]_vars

-----------------------------------------------------------------------------
(* Properties.                                                               *)

\* Number of fields submit_dialog indexes in each mode.
FieldCount == [AddUser |-> 2, AddGroup |-> 1, AddAclRule |-> 4, AssignGroup |-> 1, AddSan |-> 1,
               SetCertPath |-> 1, SetKeyPath |-> 1]

\* A dialog is open exactly in the modes that use one, with the fields that
\* submit_dialog will index (it would panic on a missing one), the active field
\* among them, and a select field shows the option it has selected.
DialogMatchesMode ==
    /\ mode = "Normal" => dialog = NoDialog
    /\ mode \in DialogMode =>
        /\ Len(dialog.fields) = FieldCount[mode]
        /\ dialog.active \in DOMAIN dialog.fields
        /\ \A i \in DOMAIN dialog.fields :
             LET f == dialog.fields[i] IN
             f.options # << >> => f.selected < Len(f.options) /\ f.value = f.options[f.selected + 1]

\* What a key press may do to the tables.
KeyActsOnShown ==
    keys' # keys =>
        /\ \A r \in rules \ rules' : tab = "AclRules" /\ r = Selected(shown.acl)
        /\ \A u \in DOMAIN users : users'[u].enabled # users[u].enabled =>
              u = index["Users"] + 1 /\ users'[u].enabled = ~shown.users[u].enabled
        /\ \A p \in members' \ members :
              p[1] = index["Users"] + 1 /\ groups[p[2]] = dialog.fields[1].value

\* The terminal acts on what it shows, however old its lists are: a key press
\* deletes no rule but one whose content is the selected row's, toggles no user
\* but the selected one, away from the state shown, and adds nobody to a group
\* but the selected user to the one chosen by name.
ActsOnShown == [][KeyActsOnShown]_vars

\* Where a step leaves the selections.
SelectsRow ==
    /\ \A t \in Tab \ {"AclRules"} : RowCount(t)' > 0 => index'[t] < RowCount(t)'
    /\ index'["AclRules"] # index["AclRules"] =>
          index'["AclRules"] = 0 \/ index'["AclRules"] < Len(shown'.acl)

\* The selection of users, groups and certificate names is always a row of the
\* list, and an arrow key puts that of the rules back on one.  (Adding a rule
\* reads the list again without clamping, so rules deleted elsewhere can leave
\* the selection behind the end, where d does nothing.)
SelectionOnRow == [][SelectsRow]_vars

===============================================================================
