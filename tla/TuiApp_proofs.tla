---------------------------- MODULE TuiApp_proofs -----------------------------
(*****************************************************************************)
(* Proofs about TuiApp, for any tables, texts and number of keys and of      *)
(* writes elsewhere.                                                         *)
(*                                                                           *)
(* What the terminal acts on is old: KeyActsOnShown needs that a row it      *)
(* shows is still the one of its id.  Users and groups keep their place, and *)
(* a rule never changes and leaves its id to no other.                       *)
(*****************************************************************************)
EXTENDS TuiApp, FiniteSetTheorems, TLAPS

TableInv ==
    /\ users \in Seq(User) /\ groups \in Seq(GroupName)
    /\ rules \subseteq Rule /\ IsFiniteSet(rules) /\ lastRule \in Nat
    /\ \A r \in rules : r.id <= lastRule
    /\ \A q, r \in rules : q.id = r.id => q = r

\* The lists shown, against the tables.
ShownInv ==
    /\ shown \in [users : Seq(User), groups : Seq(GroupName), acl : Seq(Rule),
                  memberships : Seq(SUBSET Nat)]
    /\ Len(shown.users) <= Len(users)
    /\ Len(shown.groups) <= Len(groups)
    /\ \A g \in 1..Len(shown.groups) : shown.groups[g] = groups[g]
    /\ \A i \in 1..Len(shown.acl) :
        /\ shown.acl[i].id <= lastRule
        /\ \A r \in rules : r.id = shown.acl[i].id => r = shown.acl[i]

\* The selections: of the rules' nothing is known.
IndexInv ==
    /\ tab \in Tab /\ index \in [Tab -> Nat]
    /\ index["Users"] = 0 \/ index["Users"] < Len(shown.users)
    /\ index["Groups"] = 0 \/ index["Groups"] < Len(shown.groups)
    /\ index["Tls"] = 0 \/ index["Tls"] < Len(config.sans)

ConfigInv == config \in Config /\ file \in Config

\* Field i of a dialog of mode m, when it is f.
IsSelect(m, i) == m = "AssignGroup" \/ (m = "AddAclRule" /\ i = 4)
Offered(m) == IF m = "AssignGroup" THEN GroupName ELSE {"allow", "deny"}
Field == [options : Seq(Text), selected : Nat, value : Text]

FieldOK(m, i, f) ==
    /\ f \in Field
    /\ IsSelect(m, i) => /\ f.options \in Seq(Offered(m)) /\ f.selected < Len(f.options)
                         /\ f.value = f.options[f.selected + 1]
    /\ ~IsSelect(m, i) => f.options = << >> /\ f.value \in Texts(m, i)

\* A dialog of mode m, when it is d.
DialogOK(m, d) ==
    /\ d \in [fields : Seq(Field), active : Nat]
    /\ Len(d.fields) = FieldCount[m] /\ d.active \in 1..Len(d.fields)
    /\ \A i \in 1..Len(d.fields) : FieldOK(m, i, d.fields[i])

DialogInv ==
    /\ mode \in DialogMode \cup {"Off", "Normal"}
    /\ mode \in DialogMode => DialogOK(mode, dialog)
    /\ mode \notin DialogMode => dialog = NoDialog
    /\ mode = "AssignGroup" => tab = "Users"

IInv == TableInv /\ ShownInv /\ IndexInv /\ ConfigInv /\ DialogInv

-----------------------------------------------------------------------------
(* The tables.                                                               *)

LEMMA TabIs == Tab = {"Users", "Groups", "AclRules", "Sessions", "Tls"}
BY DEF Tab, Tabs, ToSet

\* The terminal's own state stays.
LEMMA UiKept ==
    ASSUME IndexInv, ConfigInv, DialogInv, UNCHANGED <<file, mode, tab, dialog, shown, index, config>>
    PROVE  IndexInv' /\ ConfigInv' /\ DialogInv'
BY DEF IndexInv, ConfigInv, DialogInv, DialogOK, FieldOK, Texts

LEMMA DbKept ==
    ASSUME TableInv, ShownInv, UNCHANGED <<dbVars, shown>>
    PROVE  TableInv' /\ ShownInv'
BY DEF TableInv, ShownInv, dbVars

LEMMA MembersChange ==
    ASSUME TableInv, ShownInv, UNCHANGED <<users, groups, rules, lastRule, shown>>
    PROVE  TableInv' /\ ShownInv'
BY DEF TableInv, ShownInv

\* A new user, or another state of one: the rows shown keep their place.
LEMMA UsersChange ==
    ASSUME TableInv, ShownInv, UNCHANGED <<groups, rules, lastRule, shown>>,
           \/ \E name \in UserName : create_user(name)
           \/ \E u \in Nat, b \in BOOLEAN : set_user_enabled(u, b)
    PROVE  TableInv' /\ ShownInv'
<1>1. ASSUME users' \in Seq(User), Len(users) <= Len(users') PROVE TableInv' /\ ShownInv'
    <2>1. Len(shown.users) \in Nat /\ Len(users) \in Nat /\ Len(users') \in Nat
        BY <1>1 DEF TableInv, ShownInv
    <2>2. Len(shown.users) <= Len(users)
        BY DEF ShownInv
    <2>3. Len(shown.users) <= Len(users')
        BY <1>1, <2>1, <2>2
    <2>4. TableInv'
        BY <1>1 DEF TableInv
    <2> QED BY <2>3, <2>4 DEF ShownInv
<1>2. ASSUME NEW name \in UserName, create_user(name) PROVE TableInv' /\ ShownInv'
    <2>1. [name |-> name, enabled |-> TRUE] \in User
        BY DEF User
    <2>2. users' \in Seq(User) /\ Len(users') = Len(users) + 1 /\ Len(users) \in Nat
        BY <1>2, <2>1 DEF create_user, TableInv
    <2> QED BY <1>1, <2>2
<1>3. ASSUME NEW u \in Nat, NEW b \in BOOLEAN, set_user_enabled(u, b) PROVE TableInv' /\ ShownInv'
    <2>1. users' = [users EXCEPT ![u] = [@ EXCEPT !.enabled = b]]
        BY <1>3 DEF set_user_enabled
    <2>2. users \in Seq(User)
        BY DEF TableInv
    <2>3. \A x \in User : [x EXCEPT !.enabled = b] \in User
        BY DEF User
    <2> DEFINE m == Len(users)
    <2>4. m \in Nat /\ DOMAIN users = 1..m /\ \A i \in 1..m : users[i] \in User
        BY <2>2
    <2>5. users' \in [1..m -> User]
        BY <2>1, <2>2, <2>3, <2>4
    <2>6. users' \in Seq(User) /\ Len(users') = Len(users) /\ Len(users) \in Nat
        BY <2>4, <2>5
    <2> QED BY <1>1, <2>6
<1> QED BY <1>2, <1>3

LEMMA GroupsChange ==
    ASSUME TableInv, ShownInv, UNCHANGED <<users, rules, lastRule, shown>>,
           NEW name \in GroupName, create_group(name)
    PROVE  TableInv' /\ ShownInv'
<1>1. groups \in Seq(GroupName) /\ shown.groups \in Seq(GroupName)
    BY DEF TableInv, ShownInv
<1>2. /\ groups' \in Seq(GroupName) /\ Len(groups') = Len(groups) + 1
      /\ \A g \in 1..Len(groups) : groups'[g] = groups[g]
    BY <1>1 DEF create_group
<1>3. Len(shown.groups) <= Len(groups') /\ \A g \in 1..Len(shown.groups) : shown.groups[g] = groups'[g]
    BY <1>1, <1>2 DEF ShownInv
<1> QED BY <1>2, <1>3 DEF TableInv, ShownInv

\* A rule that is made has an id that none before it had.
LEMMA RuleMade ==
    ASSUME TableInv, ShownInv, UNCHANGED <<users, groups, shown>>,
           NEW r \in Rule, create_acl_rule(r)
    PROVE  TableInv' /\ ShownInv'
<1> DEFINE n == [r EXCEPT !.id = lastRule + 1]
<1>1. n \in Rule /\ n.id = lastRule + 1
    BY DEF Rule, TableInv
<1>2. rules' = rules \cup {n} /\ lastRule' = lastRule + 1
    BY DEF create_acl_rule
<1> HIDE DEF n
<1>3. IsFiniteSet(rules')
    BY <1>2, FS_AddElement DEF TableInv
<1>4. \A q \in rules : q.id \in Nat /\ q.id <= lastRule
    BY DEF TableInv, Rule
<1>5. TableInv'
    BY <1>1, <1>2, <1>3, <1>4 DEF TableInv
<1>6. \A i \in 1..Len(shown.acl) : shown.acl[i].id \in Nat /\ shown.acl[i].id <= lastRule
    <2>1. \A i \in 1..Len(shown.acl) : shown.acl[i] \in Rule
        BY DEF ShownInv
    <2> QED BY <2>1 DEF ShownInv, Rule
<1>7. ShownInv'
    BY <1>1, <1>2, <1>6 DEF ShownInv, TableInv
<1> QED BY <1>5, <1>7

LEMMA RuleDeleted ==
    ASSUME TableInv, ShownInv, UNCHANGED <<users, groups, shown>>, NEW i, delete_acl_rule(i)
    PROVE  TableInv' /\ ShownInv'
<1>1. rules' \subseteq rules /\ UNCHANGED lastRule
    BY DEF delete_acl_rule
<1>2. IsFiniteSet(rules')
    BY <1>1, FS_Subset DEF TableInv
<1> QED BY <1>1, <1>2 DEF TableInv, ShownInv

LEMMA TuiInit == Init => IInv
<1> SUFFICES ASSUME Init PROVE IInv
    OBVIOUS
<1> USE TuiAssumption
<1>1. TableInv
    <2>1. Cardinality(InitRules) \in Nat
        BY FS_CardinalityType
    <2>2. users = InitUsers /\ groups = InitGroups /\ rules = InitRules /\ lastRule = Cardinality(InitRules)
        BY DEF Init
    <2>3. \A r \in InitRules : r.id <= Cardinality(InitRules)
        BY <2>1
    <2> QED BY <2>1, <2>2, <2>3 DEF TableInv
<1>2. ShownInv
    <2>1. shown = NoRows
        BY DEF Init
    <2>2. NoRows \in [users : Seq(User), groups : Seq(GroupName), acl : Seq(Rule), memberships : Seq(SUBSET Nat)]
        BY DEF NoRows
    <2>3. Len(NoRows.users) = 0 /\ Len(NoRows.groups) = 0 /\ Len(NoRows.acl) = 0
        BY DEF NoRows
    <2>4. Len(users) \in Nat /\ Len(groups) \in Nat
        BY <1>1 DEF TableInv
    <2> QED BY <2>1, <2>2, <2>3, <2>4 DEF ShownInv
<1>3. IndexInv
    BY TabIs DEF Init, IndexInv
<1>4. ConfigInv
    <2>1. [sans |-> << >>, cert |-> "", key |-> ""] \in Config
        BY DEF Config
    <2> QED BY <2>1 DEF Init, ConfigInv
<1>5. DialogInv
    BY DEF Init, DialogInv, DialogMode
<1> QED BY <1>1, <1>2, <1>3, <1>4, <1>5 DEF IInv

-----------------------------------------------------------------------------
(* The end of the program, and its queries.                                  *)

LEMMA LeaveKeeps == ASSUME IInv, Leave, UNCHANGED <<dbVars, file>> PROVE IInv'
<1>1. TableInv' /\ ShownInv'
    BY DEF IInv, Leave, dbVars, TableInv, ShownInv, NoRows
<1>2. IndexInv'
    BY TabIs DEF Leave, IndexInv
<1>3. ConfigInv'
    BY DEF IInv, Leave, ConfigInv
<1>4. DialogInv'
    BY DEF Leave, DialogInv, DialogMode
<1> QED BY <1>1, <1>2, <1>3, <1>4 DEF IInv

LEMMA CloseKeeps ==
    ASSUME Close PROVE DialogInv'
BY DEF Close, DialogInv, DialogMode

LEMMA ClampBounds ==
    ASSUME NEW i \in Nat, NEW n \in Nat
    PROVE  Clamp(i, n) \in Nat /\ (Clamp(i, n) # i => Clamp(i, n) = 0 \/ Clamp(i, n) < n)
BY DEF Clamp

\* A list of the rules has as many rows as the table, each of them one of its rules.
LEMMA ListsRules ==
    ASSUME TableInv, NEW s \in get_acl_rules
    PROVE  s \in Seq(Rule) /\ Len(s) = Cardinality(rules) /\ \A i \in 1..Len(s) : s[i] \in rules
<1>1. s \in SetToSeqs(rules)
    BY Zenon DEF get_acl_rules
<1>2. Cardinality(rules) \in Nat
    BY FS_CardinalityType DEF TableInv
<1>3. s \in [1..Cardinality(rules) -> rules]
    BY <1>1 DEF SetToSeqs
<1> QED BY <1>2, <1>3 DEF TableInv

LEMMA ReadKeeps == ASSUME IInv, Read PROVE IInv'
<1>0. /\ TableInv /\ ShownInv /\ IndexInv /\ ConfigInv /\ DialogInv
      /\ UNCHANGED dbVars /\ UNCHANGED <<file, tab, config>>
    BY DEF IInv, Read
<1>1. TableInv' /\ ConfigInv'
    BY <1>0 DEF TableInv, ConfigInv, dbVars
<1>2. DialogInv'
    <2>1. CASE Close
        BY <2>1, CloseKeeps
    <2>2. CASE UNCHANGED <<mode, dialog>>
        BY <1>0, <2>2 DEF DialogInv, DialogOK, FieldOK, Texts
    <2> QED BY <2>1, <2>2 DEF Read
<1>3. CASE shown' = [shown EXCEPT !.users = users] /\ UNCHANGED index
    <2>1. shown' \in [users : Seq(User), groups : Seq(GroupName), acl : Seq(Rule), memberships : Seq(SUBSET Nat)]
        BY <1>0, <1>3 DEF ShownInv, TableInv
    <2>2. shown'.users = users /\ shown'.groups = shown.groups /\ shown'.acl = shown.acl
        BY <1>0, <1>3 DEF ShownInv
    <2>3. Len(users) \in Nat /\ Len(shown.users) \in Nat /\ Len(shown.users) <= Len(users)
        BY <1>0 DEF ShownInv, TableInv
    <2>4. ShownInv'
        BY <1>0, <2>1, <2>2, <2>3 DEF ShownInv, dbVars
    <2>5. IndexInv'
        BY <1>0, <1>3, <2>2, <2>3, TabIs DEF IndexInv
    <2> QED BY <1>1, <1>2, <2>4, <2>5 DEF IInv
<1>4. CASE shown' = [shown EXCEPT !.groups = groups] /\ UNCHANGED index
    <2>1. shown' \in [users : Seq(User), groups : Seq(GroupName), acl : Seq(Rule), memberships : Seq(SUBSET Nat)]
        BY <1>0, <1>4 DEF ShownInv, TableInv
    <2>2. shown'.users = shown.users /\ shown'.groups = groups /\ shown'.acl = shown.acl
        BY <1>0, <1>4 DEF ShownInv
    <2>3. Len(groups) \in Nat /\ Len(shown.groups) \in Nat /\ Len(shown.groups) <= Len(groups)
        BY <1>0 DEF ShownInv, TableInv
    <2>4. ShownInv'
        BY <1>0, <2>1, <2>2, <2>3 DEF ShownInv, dbVars
    <2>5. IndexInv'
        BY <1>0, <1>4, <2>2, <2>3, TabIs DEF IndexInv
    <2> QED BY <1>1, <1>2, <2>4, <2>5 DEF IInv
<1>5. ASSUME NEW s \in get_acl_rules, shown' = [shown EXCEPT !.acl = s],
             index' = IF mode = "Normal"
                      THEN [index EXCEPT !["AclRules"] = Clamp(@, Cardinality(rules))] ELSE index
      PROVE  IInv'
    <2>1. s \in Seq(Rule) /\ Len(s) = Cardinality(rules) /\ \A i \in 1..Len(s) : s[i] \in rules
        BY <1>0, ListsRules
    <2>2. shown' \in [users : Seq(User), groups : Seq(GroupName), acl : Seq(Rule), memberships : Seq(SUBSET Nat)]
        BY <1>0, <1>5, <2>1 DEF ShownInv
    <2>3. shown'.users = shown.users /\ shown'.groups = shown.groups /\ shown'.acl = s
        BY <1>0, <1>5 DEF ShownInv
    <2>4. ShownInv'
        BY <1>0, <2>1, <2>2, <2>3 DEF ShownInv, TableInv, dbVars
    <2>5. /\ index' \in [Tab -> Nat]
          /\ \A t \in Tab \ {"AclRules"} : index'[t] = index[t]
        <3>1. Clamp(index["AclRules"], Cardinality(rules)) \in Nat
            BY <1>0, TabIs, ClampBounds, FS_CardinalityType DEF IndexInv, TableInv
        <3> QED BY <1>0, <1>5, <3>1, TabIs DEF IndexInv
    <2>6. IndexInv'
        BY <1>0, <2>3, <2>5, TabIs DEF IndexInv
    <2> QED BY <1>1, <1>2, <2>4, <2>6 DEF IInv
<1>6. ASSUME NEW q, shown' = [shown EXCEPT !.memberships =
                 [u \in DOMAIN shown.users |->
                    IF q \in {0, u} THEN get_user_groups(u)
                    ELSE IF u \in DOMAIN @ THEN @[u] ELSE {}]], UNCHANGED index
      PROVE  IInv'
    <2> DEFINE ms == [u \in DOMAIN shown.users |->
                        IF q \in {0, u} THEN get_user_groups(u)
                        ELSE IF u \in DOMAIN shown.memberships THEN shown.memberships[u] ELSE {}]
    <2>1. \A u : get_user_groups(u) \in SUBSET Nat
        BY <1>0 DEF get_user_groups, TableInv
    <2>2. \A u \in DOMAIN shown.memberships : shown.memberships[u] \in SUBSET Nat
        BY <1>0 DEF ShownInv
    <2>3. DOMAIN shown.users = 1..Len(shown.users) /\ Len(shown.users) \in Nat
        BY <1>0 DEF ShownInv
    <2>4. ms \in [1..Len(shown.users) -> SUBSET Nat]
        BY <2>1, <2>2, <2>3
    <2>5. ms \in Seq(SUBSET Nat)
        BY <2>3, <2>4
    <2>6. shown' = [shown EXCEPT !.memberships = ms]
        BY <1>6
    <2> HIDE DEF ms
    <2>7. shown' \in [users : Seq(User), groups : Seq(GroupName), acl : Seq(Rule), memberships : Seq(SUBSET Nat)]
        BY <1>0, <2>5, <2>6 DEF ShownInv
    <2>8. shown'.users = shown.users /\ shown'.groups = shown.groups /\ shown'.acl = shown.acl
        BY <1>0, <2>6 DEF ShownInv
    <2>9. ShownInv' /\ IndexInv'
        BY <1>0, <1>6, <2>7, <2>8 DEF ShownInv, IndexInv, dbVars
    <2> QED BY <1>1, <1>2, <2>9 DEF IInv
<1> QED BY <1>3, <1>4, <1>5, <1>6 DEF Read

-----------------------------------------------------------------------------
(* handle_normal_key.                                                        *)

LEMMA TurnKeeps ==
    ASSUME IInv, mode = "Normal", NEW delta \in {1, -1}, Turn(delta)
    PROVE  IInv'
<1>0. /\ TableInv /\ ShownInv /\ IndexInv /\ ConfigInv /\ DialogInv
      /\ UNCHANGED <<dbVars, file, mode, dialog, shown, index, config>>
    BY DEF IInv, Turn
<1>1. tab' \in Tab
    <2> DEFINE i == CHOOSE i \in DOMAIN Tabs : Tabs[i] = tab
    <2>1. DOMAIN Tabs = 1..5 /\ Len(Tabs) = 5
        BY DEF Tabs
    <2>2. \E j \in DOMAIN Tabs : Tabs[j] = tab
        BY <1>0 DEF IndexInv, Tab, ToSet
    <2>3. i \in 1..5
        BY <2>1, <2>2
    <2>4. tab' = Tabs[((i - 1 + delta) % 5) + 1]
        BY <2>1 DEF Turn
    <2> HIDE DEF i
    <2>5. ((i - 1 + delta) % 5) + 1 \in 1..5
        BY <2>3
    <2> QED BY <2>1, <2>4, <2>5 DEF Tab, ToSet
<1>2. TableInv' /\ ShownInv'
    BY <1>0, DbKept
<1>3. IndexInv' /\ ConfigInv'
    BY <1>0, <1>1 DEF IndexInv, ConfigInv
<1>4. DialogInv'
    BY <1>0 DEF DialogInv, DialogMode
<1> QED BY <1>2, <1>3, <1>4 DEF IInv

LEMMA WrapBounds ==
    ASSUME NEW i \in Int, NEW n \in Nat, n > 0
    PROVE  Wrap(i, n) \in Nat /\ Wrap(i, n) < n
BY DEF Wrap

LEMMA RowCountType == ASSUME IInv, NEW t \in Tab PROVE RowCount(t) \in Nat
<1>1. /\ shown.users \in Seq(User) /\ shown.groups \in Seq(GroupName) /\ shown.acl \in Seq(Rule)
      /\ config.sans \in Seq(San)
    BY DEF IInv, ShownInv, ConfigInv, Config
<1>2. Len(shown.users) \in Nat /\ Len(shown.groups) \in Nat /\ Len(shown.acl) \in Nat /\ Len(config.sans) \in Nat
    BY <1>1
<1> QED BY <1>2, TabIs DEF RowCount

LEMMA MoveKeeps ==
    ASSUME IInv, NEW delta \in {1, -1}, move_selection(delta)
    PROVE  IInv'
<1>0. /\ TableInv /\ ShownInv /\ IndexInv /\ ConfigInv /\ DialogInv
      /\ UNCHANGED <<dbVars, file, mode, tab, dialog, shown, config>>
    BY DEF IInv, move_selection
<1> DEFINE w == Wrap(index[tab] + delta, RowCount(tab))
<1>1. tab \in Tab /\ index \in [Tab -> Nat] /\ RowCount(tab) > 0 /\ RowCount(tab) \in Nat
    BY <1>0, RowCountType DEF IndexInv, move_selection
<1>2. index' = [index EXCEPT ![tab] = w]
    BY DEF move_selection
<1>3. w \in Nat /\ w < RowCount(tab)
    BY <1>1, WrapBounds
<1> HIDE DEF w
<1>4. index' \in [Tab -> Nat] /\ \A t \in Tab : index'[t] = index[t] \/ (t = tab /\ index'[t] < RowCount(t))
    BY <1>1, <1>2, <1>3
<1>5. IndexInv'
    BY <1>0, <1>1, <1>4, TabIs DEF IndexInv, RowCount
<1>6. ConfigInv' /\ DialogInv'
    BY <1>0 DEF ConfigInv, DialogInv, DialogOK, FieldOK, Texts
<1> QED BY <1>0, <1>5, <1>6, DbKept DEF IInv

\* A dialog opens: its fields are those of its mode.
LEMMA OpenKeeps ==
    ASSUME IInv, NEW m \in DialogMode, NEW fields, Open(m, fields), DialogOK(m, DialogState(fields)),
           m = "AssignGroup" => tab = "Users"
    PROVE  IInv'
<1>0. /\ TableInv /\ ShownInv /\ IndexInv /\ ConfigInv
      /\ UNCHANGED <<dbVars, file, tab, shown, index, config>>
    BY DEF IInv, Open
<1>1. DialogInv'
    BY <1>0 DEF Open, DialogInv, DialogOK, FieldOK, Texts
<1>2. IndexInv' /\ ConfigInv'
    BY <1>0 DEF IndexInv, ConfigInv
<1> QED BY <1>0, <1>1, <1>2, DbKept DEF IInv

LEMMA SomeField == \A m \in DialogMode : FieldCount[m] \in Nat /\ 1 \in 1..FieldCount[m]
BY DEF DialogMode, FieldCount

LEMMA TextField ==
    ASSUME NEW m, NEW i, ~IsSelect(m, i), NEW v \in Texts(m, i), v \in Text
    PROVE  FieldOK(m, i, text(v))
BY DEF FieldOK, Field, text

LEMMA SelectField ==
    ASSUME NEW m, NEW i, IsSelect(m, i), NEW options \in Seq(Offered(m)), options # << >>
    PROVE  FieldOK(m, i, select(options))
<1>1. Offered(m) \subseteq Text
    BY DEF Offered, Text
<1>2. options \in Seq(Text) /\ Len(options) > 0 /\ options[1] \in Text
    BY <1>1
<1> QED BY <1>2 DEF FieldOK, Field, select

LEMMA OneField ==
    ASSUME NEW m, FieldCount[m] = 1, NEW f, FieldOK(m, 1, f)
    PROVE  DialogOK(m, DialogState(<<f>>))
<1>1. f \in Field
    BY DEF FieldOK
<1>2. <<f>> \in Seq(Field) /\ Len(<<f>>) = 1 /\ <<f>>[1] = f
    BY <1>1
<1> QED BY <1>2 DEF DialogOK, DialogState

LEMMA TwoFields ==
    ASSUME NEW m, FieldCount[m] = 2, NEW f, NEW g, FieldOK(m, 1, f), FieldOK(m, 2, g)
    PROVE  DialogOK(m, DialogState(<<f, g>>))
<1>1. f \in Field /\ g \in Field
    BY DEF FieldOK
<1>2. <<f, g>> \in Seq(Field) /\ Len(<<f, g>>) = 2 /\ <<f, g>>[1] = f /\ <<f, g>>[2] = g
    BY <1>1
<1>3. \A i \in 1..2 : FieldOK(m, i, <<f, g>>[i])
    BY <1>2
<1> QED BY <1>2, <1>3 DEF DialogOK, DialogState

LEMMA FourFields ==
    ASSUME NEW m, FieldCount[m] = 4, NEW f, NEW g, NEW h, NEW k,
           FieldOK(m, 1, f), FieldOK(m, 2, g), FieldOK(m, 3, h), FieldOK(m, 4, k)
    PROVE  DialogOK(m, DialogState(<<f, g, h, k>>))
<1> DEFINE fs == <<f, g, h, k>>
<1>1. f \in Field /\ g \in Field /\ h \in Field /\ k \in Field
    BY DEF FieldOK
<1>2. fs \in Seq(Field) /\ Len(fs) = 4 /\ fs[1] = f /\ fs[2] = g /\ fs[3] = h /\ fs[4] = k
    BY <1>1
<1> HIDE DEF fs
<1>3. \A i \in 1..4 : FieldOK(m, i, fs[i])
    BY <1>2
<1>4. DialogOK(m, DialogState(fs))
    <2>1. /\ DialogState(fs) \in [fields : Seq(Field), active : Nat]
          /\ DialogState(fs).fields = fs /\ DialogState(fs).active = 1
        BY <1>2 DEF DialogState
    <2>2. 1 \in 1..Len(fs) /\ \A i \in 1..Len(fs) : FieldOK(m, i, fs[i])
        BY <1>2, <1>3
    <2> QED BY <1>2, <2>1, <2>2 DEF DialogOK
<1> QED BY <1>4 DEF fs

LEMMA Blank == ASSUME NEW m, NEW i PROVE "" \in Text /\ "" \in Texts(m, i)
BY DEF Text, Texts

LEMMA OpensKeep ==
    ASSUME IInv, start_add_dialog \/ start_assign_group_dialog \/ EditPath
    PROVE  IInv'
<1>0. TableInv /\ ShownInv /\ IndexInv /\ ConfigInv
    BY DEF IInv
<1>1. CASE Open("AddUser", <<text(""), text("")>>)
    <2>1. FieldOK("AddUser", 1, text("")) /\ FieldOK("AddUser", 2, text(""))
        BY Blank, TextField DEF IsSelect
    <2>2. DialogOK("AddUser", DialogState(<<text(""), text("")>>))
        BY <2>1, TwoFields DEF FieldCount
    <2> QED BY <1>1, <2>2, OpenKeeps DEF DialogMode
<1>2. ASSUME NEW m \in {"AddGroup", "AddSan"}, Open(m, <<text("")>>) PROVE IInv'
    <2>1. FieldOK(m, 1, text(""))
        BY Blank, TextField DEF IsSelect
    <2>2. DialogOK(m, DialogState(<<text("")>>))
        BY <2>1, OneField DEF FieldCount
    <2> QED BY <1>2, <2>2, OpenKeeps DEF DialogMode
<1>3. CASE Open("AddAclRule", <<text(""), text(""), text(""), select(<<"allow", "deny">>)>>)
    <2>1. /\ ~IsSelect("AddAclRule", 1) /\ ~IsSelect("AddAclRule", 2) /\ ~IsSelect("AddAclRule", 3)
          /\ IsSelect("AddAclRule", 4)
        BY DEF IsSelect
    <2>2. /\ FieldOK("AddAclRule", 1, text("")) /\ FieldOK("AddAclRule", 2, text(""))
          /\ FieldOK("AddAclRule", 3, text(""))
        BY <2>1, Blank, TextField
    <2>3. <<"allow", "deny">> \in Seq(Offered("AddAclRule")) /\ <<"allow", "deny">> # << >>
        BY DEF Offered
    <2>4. FieldOK("AddAclRule", 4, select(<<"allow", "deny">>))
        BY <2>1, <2>3, SelectField
    <2>5. DialogOK("AddAclRule", DialogState(<<text(""), text(""), text(""), select(<<"allow", "deny">>)>>))
        BY <2>2, <2>4, FourFields DEF FieldCount
    <2> QED BY <1>3, <2>5, OpenKeeps DEF DialogMode
<1>4. CASE start_assign_group_dialog
    <2>1. shown.groups \in Seq(Offered("AssignGroup")) /\ shown.groups # << >>
        BY <1>0, <1>4 DEF ShownInv, Offered, start_assign_group_dialog
    <2>2. FieldOK("AssignGroup", 1, select(shown.groups))
        BY <2>1, SelectField DEF IsSelect
    <2>3. DialogOK("AssignGroup", DialogState(<<select(shown.groups)>>))
        BY <2>2, OneField DEF FieldCount
    <2> QED BY <1>4, <2>3, OpenKeeps DEF DialogMode, start_assign_group_dialog
<1>5. CASE EditPath
    <2>1. ASSUME NEW m \in {"SetCertPath", "SetKeyPath"}, NEW v \in Path \cup {""}, Open(m, <<text(v)>>)
          PROVE  IInv'
        <3>1. v \in Texts(m, 1) /\ v \in Text
            BY DEF Texts, Text
        <3>2. FieldOK(m, 1, text(v))
            BY <3>1, TextField DEF IsSelect
        <3>3. DialogOK(m, DialogState(<<text(v)>>))
            BY <3>2, OneField DEF FieldCount
        <3> QED BY <2>1, <3>3, OpenKeeps DEF DialogMode
    <2>2. config.cert \in Path \cup {""} /\ config.key \in Path \cup {""}
        BY <1>0 DEF ConfigInv, Config
    <2> QED BY <1>5, <2>1, <2>2 DEF EditPath
<1> QED BY <1>1, <1>2, <1>3, <1>4, <1>5 DEF start_add_dialog

LEMMA DeleteKeeps == ASSUME IInv, mode = "Normal", handle_delete_action PROVE IInv'
<1>0. TableInv /\ ShownInv /\ IndexInv /\ ConfigInv /\ DialogInv
    BY DEF IInv
<1>1. CASE DeleteRule
    <2>1. TableInv' /\ ShownInv'
        BY <1>0, <1>1, RuleDeleted DEF DeleteRule
    <2>2. IndexInv' /\ ConfigInv' /\ DialogInv'
        BY <1>0, <1>1, UiKept DEF DeleteRule
    <2> QED BY <2>1, <2>2 DEF IInv
<1>2. CASE ToggleUser
    <2>1. index[tab] + 1 \in Nat /\ (~Selected(shown.users).enabled) \in BOOLEAN
        BY <1>0 DEF IndexInv
    <2>2. TableInv' /\ ShownInv'
        BY <1>0, <1>2, <2>1, UsersChange DEF ToggleUser
    <2>3. IndexInv' /\ ConfigInv' /\ DialogInv'
        BY <1>0, <1>2, UiKept DEF ToggleUser
    <2> QED BY <2>2, <2>3 DEF IInv
<1>3. CASE RemoveSan
    <2>0. /\ config \in Config /\ tab = "Tls" /\ index \in [Tab -> Nat] /\ "Tls" \in Tab
          /\ index["Tls"] < Len(config.sans)
          /\ UNCHANGED <<dbVars, file, mode, tab, dialog, shown>>
        BY <1>0, <1>3, TabIs DEF ConfigInv, IndexInv, RemoveSan, HasSelected
    <2> DEFINE n == Len(config.sans)
               k == index["Tls"] + 1
    <2>1. config.sans \in Seq(San) /\ n \in Nat /\ k \in 1..n
        <3>1. config.sans \in Seq(San) /\ index["Tls"] \in Nat
            BY <2>0 DEF Config
        <3>2. n \in Nat
            BY <3>1
        <3> QED BY <2>0, <3>1, <3>2
    <2>2. RemoveAt(config.sans, k) \in Seq(San) /\ Len(RemoveAt(config.sans, k)) = n - 1
        <3>1. SubSeq(config.sans, 1, k - 1) \in Seq(San) /\ Len(SubSeq(config.sans, 1, k - 1)) = k - 1
            BY <2>1
        <3>2. SubSeq(config.sans, k + 1, n) \in Seq(San) /\ Len(SubSeq(config.sans, k + 1, n)) = n - k
            BY <2>1
        <3>3. RemoveAt(config.sans, k) = SubSeq(config.sans, 1, k - 1) \o SubSeq(config.sans, k + 1, n)
            BY DEF RemoveAt
        <3> HIDE DEF n, k
        <3> QED BY <2>1, <3>1, <3>2, <3>3
    <2>3. config' = [config EXCEPT !.sans = RemoveAt(config.sans, k)]
        BY <1>3, <2>0 DEF RemoveSan
    <2>4. config' \in Config /\ config'.sans = RemoveAt(config.sans, k)
        BY <2>0, <2>2, <2>3 DEF Config
    <2>5. index' = [index EXCEPT !["Tls"] = Clamp(index["Tls"], n - 1)]
        BY <1>3, <2>0 DEF RemoveSan
    <2>6. Clamp(index["Tls"], n - 1) \in Nat /\ (Clamp(index["Tls"], n - 1) = 0 \/ Clamp(index["Tls"], n - 1) < n - 1)
        BY <2>0, <2>1 DEF Clamp
    <2>7. IndexInv'
        BY <1>0, <2>0, <2>2, <2>4, <2>5, <2>6, TabIs DEF IndexInv
    <2>8. ConfigInv' /\ DialogInv'
        BY <1>0, <2>0, <2>4 DEF ConfigInv, DialogInv, DialogOK, FieldOK, Texts
    <2> QED BY <1>0, <2>0, <2>7, <2>8, DbKept DEF IInv
<1> QED BY <1>1, <1>2, <1>3 DEF handle_delete_action

LEMMA NormalKeeps == ASSUME IInv, handle_normal_key PROVE IInv'
<1>0. TableInv /\ ShownInv /\ IndexInv /\ ConfigInv /\ DialogInv /\ mode = "Normal"
    BY DEF IInv, handle_normal_key
<1>1. CASE Quit
    BY <1>1, LeaveKeeps DEF Quit
<1>2. CASE RefreshSessions
    BY <1>0, <1>2, DbKept, UiKept DEF RefreshSessions, uiVars, IInv
<1>3. CASE save_config
    <2>1. ConfigInv'
        BY <1>0, <1>3 DEF save_config, uiVars, ConfigInv
    <2>2. IndexInv' /\ DialogInv'
        BY <1>0, <1>3 DEF save_config, uiVars, IndexInv, DialogInv, DialogOK, FieldOK, Texts
    <2> QED BY <1>0, <1>3, <2>1, <2>2, DbKept DEF save_config, uiVars, IInv
<1>4. CASE NormalFails
    BY <1>4, <1>1 DEF NormalFails
<1> QED BY <1>0, <1>1, <1>2, <1>3, <1>4, TurnKeeps, MoveKeeps, OpensKeep, DeleteKeeps DEF handle_normal_key

-----------------------------------------------------------------------------
(* handle_dialog_key.                                                        *)

LEMMA DialogStep ==
    ASSUME IInv, mode \in DialogMode, DialogOK(mode, dialog'),
           UNCHANGED <<dbVars, file, mode, tab, shown, index, config>>
    PROVE  IInv'
<1>0. TableInv /\ ShownInv /\ IndexInv /\ ConfigInv /\ DialogInv
    BY DEF IInv
<1>1. DialogInv'
    BY <1>0 DEF DialogInv, DialogOK, FieldOK, Texts
<1>2. IndexInv' /\ ConfigInv'
    BY <1>0 DEF IndexInv, ConfigInv
<1> QED BY <1>0, <1>1, <1>2, DbKept DEF IInv

\* The active field becomes f.
LEMMA FieldSet ==
    ASSUME NEW m, NEW d, DialogOK(m, d), NEW f, FieldOK(m, d.active, f)
    PROVE  DialogOK(m, [d EXCEPT !.fields = [d.fields EXCEPT ![d.active] = f]])
<1> DEFINE fs == [d.fields EXCEPT ![d.active] = f]
           e == [d EXCEPT !.fields = fs]
<1>1. /\ d \in [fields : Seq(Field), active : Nat] /\ d.fields \in Seq(Field) /\ Len(d.fields) \in Nat
      /\ f \in Field /\ DOMAIN d.fields = 1..Len(d.fields) /\ d.active \in 1..Len(d.fields)
      /\ \A i \in 1..Len(d.fields) : d.fields[i] \in Field
    BY DEF DialogOK, FieldOK
<1>2. fs \in [1..Len(d.fields) -> Field] /\ \A i \in 1..Len(d.fields) : fs[i] = IF i = d.active THEN f ELSE d.fields[i]
    BY <1>1
<1> HIDE DEF fs
<1>3. fs \in Seq(Field) /\ Len(fs) = Len(d.fields)
    BY <1>1, <1>2
<1>4. e \in [fields : Seq(Field), active : Nat] /\ e.fields = fs /\ e.active = d.active
    BY <1>1, <1>3
<1>5. \A i \in 1..Len(fs) : FieldOK(m, i, fs[i])
    BY <1>2, <1>3 DEF DialogOK
<1>6. DialogOK(m, e)
    <2> HIDE DEF e
    <2> QED BY <1>3, <1>4, <1>5 DEF DialogOK
<1> QED BY <1>6 DEF fs

LEMMA EditKeeps ==
    ASSUME IInv, mode \in DialogMode, next_field \/ Choose(1) \/ Choose(-1) \/ Type
    PROVE  IInv'
<1>0. /\ DialogOK(mode, dialog) /\ FieldOK(mode, dialog.active, ActiveField)
      /\ UNCHANGED <<dbVars, file, mode, tab, shown, index, config>>
    BY DEF IInv, DialogInv, DialogOK, ActiveField, next_field, Choose, Type
<1>1. CASE next_field
    <2> DEFINE n == Len(dialog.fields)
               a == (dialog.active % n) + 1
    <2>1. dialog \in [fields : Seq(Field), active : Nat] /\ n \in Nat /\ dialog.active \in 1..n
        BY <1>0 DEF DialogOK
    <2>2. a \in 1..n
        BY <2>1
    <2>3. dialog' = [dialog EXCEPT !.active = a]
        BY <1>1 DEF next_field
    <2> HIDE DEF a
    <2>4. /\ dialog' \in [fields : Seq(Field), active : Nat] /\ dialog'.fields = dialog.fields
          /\ dialog'.active = a
        BY <2>1, <2>2, <2>3
    <2>5. DialogOK(mode, dialog')
        BY <1>0, <2>2, <2>4 DEF DialogOK
    <2> QED BY <1>0, <2>5, DialogStep
<1>2. ASSUME NEW delta \in {1, -1}, Choose(delta) PROVE IInv'
    <2> DEFINE i == ActiveField.selected + delta
               f == [ActiveField EXCEPT !.selected = i, !.value = ActiveField.options[i + 1]]
    <2>1. /\ ActiveField.options # << >> /\ 0 <= i /\ i < Len(ActiveField.options)
          /\ dialog' = [dialog EXCEPT !.fields = [dialog.fields EXCEPT ![dialog.active] = f]]
        BY <1>2 DEF Choose, ActiveField
    <2>2. /\ ActiveField \in Field /\ ActiveField.options \in Seq(Text) /\ ActiveField.selected \in Nat
          /\ IsSelect(mode, dialog.active) /\ ActiveField.options \in Seq(Offered(mode))
        BY <1>0, <2>1 DEF FieldOK, Field
    <2>3. i \in Nat /\ i + 1 \in 1..Len(ActiveField.options) /\ ActiveField.options[i + 1] \in Text
        BY <2>1, <2>2
    <2>4. f \in Field /\ f.options = ActiveField.options /\ f.selected = i /\ f.value = ActiveField.options[i + 1]
        <3> HIDE DEF i
        <3> QED BY <2>2, <2>3 DEF Field
    <2> HIDE DEF f, i
    <2>5. FieldOK(mode, dialog.active, f)
        BY <2>1, <2>2, <2>4 DEF FieldOK
    <2>6. DialogOK(mode, dialog')
        BY <1>0, <2>1, <2>5, FieldSet
    <2> QED BY <1>0, <2>6, DialogStep
<1>3. ASSUME NEW v \in Texts(mode, dialog.active), ActiveField.options = << >>,
             dialog' = [dialog EXCEPT !.fields[dialog.active].value = v]
      PROVE  IInv'
    <2> DEFINE f == [ActiveField EXCEPT !.value = v]
    <2>1. dialog' = [dialog EXCEPT !.fields = [dialog.fields EXCEPT ![dialog.active] = f]]
        BY <1>3 DEF ActiveField
    <2>2. ~IsSelect(mode, dialog.active)
        BY <1>0, <1>3 DEF FieldOK, Field
    <2>3. v \in Text
        <3>1. dialog.active \in 1..FieldCount[mode]
            BY <1>0 DEF DialogOK
        <3>2. mode = "AddAclRule" => dialog.active \in {1, 2, 3}
            BY <2>2, <3>1 DEF IsSelect, FieldCount
        <3>3. CASE mode = "AddAclRule"
            <4>1. Texts(mode, dialog.active) = RuleText[dialog.active] \cup {""}
                BY <3>3 DEF Texts
            <4>2. RuleText[dialog.active] \in {RuleText[i] : i \in 1..3}
                BY <3>2, <3>3
            <4> QED BY <1>3, <4>1, <4>2 DEF Text
        <3>4. CASE mode # "AddAclRule"
            BY <1>3, <3>4 DEF Texts, Text
        <3> QED BY <3>3, <3>4
    <2>4. ActiveField \in Field
        BY <1>0 DEF FieldOK
    <2>5. f \in Field /\ f.options = << >> /\ f.value = v
        BY <1>3, <2>3, <2>4 DEF Field
    <2> HIDE DEF f
    <2>6. FieldOK(mode, dialog.active, f)
        BY <1>3, <2>2, <2>5 DEF FieldOK
    <2>7. DialogOK(mode, dialog')
        BY <1>0, <2>1, <2>6, FieldSet
    <2> QED BY <1>0, <2>7, DialogStep
<1> QED BY <1>1, <1>2, <1>3 DEF Type

\* What stands in field i of the dialog that is open.
LEMMA FieldKnown ==
    ASSUME IInv, mode \in DialogMode, NEW i \in 1..FieldCount[mode]
    PROVE  /\ ~IsSelect(mode, i) => field_value(i) \in Texts(mode, i)
           /\ IsSelect(mode, i) => field_value(i) \in Offered(mode)
           /\ field_value(i) \in Text
<1>1. FieldOK(mode, i, dialog.fields[i])
    BY DEF IInv, DialogInv, DialogOK
<1>2. dialog.fields[i] \in Field
    BY <1>1 DEF FieldOK
<1>3. dialog.fields[i].selected \in Nat /\ field_value(i) \in Text
    BY <1>2 DEF Field, field_value
<1>4. ASSUME IsSelect(mode, i) PROVE field_value(i) \in Offered(mode)
    BY <1>1, <1>3, <1>4 DEF FieldOK, field_value
<1>5. ASSUME ~IsSelect(mode, i) PROVE field_value(i) \in Texts(mode, i)
    BY <1>1, <1>5 DEF FieldOK, field_value
<1> QED BY <1>3, <1>4, <1>5

LEMMA TypedRuleIsRule == ASSUME IInv, mode = "AddAclRule" PROVE TypedRule \in Rule
<1>1. \A t, d : d \in Int => ParsesAs(t, d) \in Int
    BY TuiAssumption DEF ParsesAs
<1>2. field_value(2) \in Text /\ field_value(4) \in {"allow", "deny"}
    <2>1. mode \in DialogMode /\ 2 \in 1..FieldCount[mode] /\ 4 \in 1..FieldCount[mode]
        BY DEF DialogMode, FieldCount
    <2> QED BY <2>1, FieldKnown DEF IsSelect, Offered
<1>3. "" \in Text
    BY DEF Text
<1>4. ParsesAs(field_value(1), 0) \in Int /\ ParsesAs(field_value(3), -1) \in Int
    BY <1>1
<1> QED BY <1>2, <1>3, <1>4 DEF TypedRule, Rule

LEMMA SubmitKeeps == ASSUME IInv, submit_dialog, mode \in DialogMode PROVE IInv'
<1>0. TableInv /\ ShownInv /\ IndexInv /\ ConfigInv /\ DialogInv
    BY DEF IInv
<1>1. ASSUME NEW q, Wait(q), UNCHANGED file PROVE IndexInv' /\ ConfigInv' /\ DialogInv' /\ UNCHANGED shown
    BY <1>0, <1>1, UiKept DEF Wait
<1>2. CASE SubmitUser
    <2>1. field_value(1) \in UserName
        <3>0. mode = "AddUser" /\ field_value(1) # ""
            BY <1>2 DEF SubmitUser
        <3>1. 1 \in 1..FieldCount[mode] /\ ~IsSelect(mode, 1)
            BY <3>0, SomeField DEF IsSelect
        <3>2. field_value(1) \in Texts(mode, 1)
            BY <3>1, FieldKnown
        <3>3. Texts("AddUser", 1) = UserName \cup {""}
            BY DEF Texts
        <3> QED BY <3>0, <3>2, <3>3
    <2>2. IndexInv' /\ ConfigInv' /\ DialogInv' /\ UNCHANGED shown
        BY <1>1, <1>2 DEF SubmitUser
    <2>3. TableInv' /\ ShownInv'
        BY <1>0, <1>2, <2>1, <2>2, UsersChange DEF SubmitUser
    <2> QED BY <2>2, <2>3 DEF IInv
<1>3. CASE SubmitGroup
    <2>1. field_value(1) \in GroupName
        <3>0. mode = "AddGroup" /\ field_value(1) # ""
            BY <1>3 DEF SubmitGroup
        <3>1. 1 \in 1..FieldCount[mode] /\ ~IsSelect(mode, 1)
            BY <3>0, SomeField DEF IsSelect
        <3>2. field_value(1) \in Texts(mode, 1)
            BY <3>1, FieldKnown
        <3>3. Texts("AddGroup", 1) = GroupName \cup {""}
            BY DEF Texts
        <3> QED BY <3>0, <3>2, <3>3
    <2>2. IndexInv' /\ ConfigInv' /\ DialogInv' /\ UNCHANGED shown
        BY <1>1, <1>3 DEF SubmitGroup
    <2>3. TableInv' /\ ShownInv'
        BY <1>0, <1>3, <2>1, <2>2, GroupsChange DEF SubmitGroup
    <2> QED BY <2>2, <2>3 DEF IInv
<1>4. CASE SubmitRule
    <2>1. TypedRule \in Rule
        BY <1>4, TypedRuleIsRule DEF SubmitRule
    <2>2. IndexInv' /\ ConfigInv' /\ DialogInv' /\ UNCHANGED shown
        BY <1>1, <1>4 DEF SubmitRule
    <2>3. TableInv' /\ ShownInv'
        BY <1>0, <1>4, <2>1, <2>2, RuleMade DEF SubmitRule
    <2> QED BY <2>2, <2>3 DEF IInv
<1>5. CASE SubmitMember
    <2>1. IndexInv' /\ ConfigInv' /\ DialogInv' /\ UNCHANGED shown
        BY <1>1, <1>5 DEF SubmitMember
    <2>2. TableInv' /\ ShownInv'
        BY <1>0, <1>5, <2>1, MembersChange DEF SubmitMember
    <2> QED BY <2>1, <2>2 DEF IInv
<1>6. CASE SubmitConfig
    <2>1. DialogInv' /\ UNCHANGED <<dbVars, file, tab, shown, index>>
        BY <1>6, CloseKeeps DEF SubmitConfig
    <2>2. config \in Config /\ config.sans \in Seq(San) /\ file \in Config
        BY <1>0 DEF ConfigInv, Config
    <2>3. Len(config.sans) \in Nat
        BY <2>2
    <2>4. 1 \in 1..FieldCount[mode] /\ ~IsSelect(mode, 1)
        <3>1. mode \in {"AddSan", "SetCertPath", "SetKeyPath"}
            BY <1>6 DEF SubmitConfig
        <3> QED BY <3>1 DEF FieldCount, IsSelect
    <2>5. field_value(1) \in Texts(mode, 1)
        BY <2>4, FieldKnown
    <2>6. config' \in Config /\ Len(config'.sans) \in Nat /\ Len(config.sans) <= Len(config'.sans)
        <3>1. CASE mode = "AddSan" /\ field_value(1) # "" /\ config' = [config EXCEPT !.sans = AddSan(@, field_value(1))]
            <4>1. field_value(1) \in San
                BY <2>5, <3>1 DEF Texts
            <4>2. /\ AddSan(config.sans, field_value(1)) \in Seq(San)
                  /\ Len(config.sans) <= Len(AddSan(config.sans, field_value(1)))
                  /\ Len(AddSan(config.sans, field_value(1))) \in Nat
                <5>1. Append(config.sans, field_value(1)) \in Seq(San) /\ Len(Append(config.sans, field_value(1))) = Len(config.sans) + 1
                    BY <2>2, <4>1
                <5> QED BY <2>2, <2>3, <5>1 DEF AddSan
            <4> QED BY <2>2, <3>1, <4>2 DEF Config
        <3>2. ASSUME mode \in {"SetCertPath", "SetKeyPath"},
                     \/ config' = [config EXCEPT !.cert = field_value(1)]
                     \/ config' = [config EXCEPT !.key = field_value(1)]
              PROVE  config' \in Config /\ config'.sans = config.sans
            <4>1. field_value(1) \in Path \cup {""}
                BY <2>5, <3>2 DEF Texts
            <4> QED BY <2>2, <3>2, <4>1 DEF Config
        <3>3. CASE mode \in {"SetCertPath", "SetKeyPath"}
            <4>1. config' \in Config /\ config'.sans = config.sans
                BY <1>6, <3>2, <3>3 DEF SubmitConfig
            <4> QED BY <2>3, <4>1
        <3> QED BY <1>6, <3>1, <3>3 DEF SubmitConfig
    <2>7. ConfigInv'
        BY <2>1, <2>2, <2>6 DEF ConfigInv
    <2>8. index["Tls"] \in Nat
        BY <1>0, TabIs DEF IndexInv
    <2>9. IndexInv'
        BY <1>0, <2>1, <2>3, <2>6, <2>8 DEF IndexInv
    <2> QED BY <1>0, <2>1, <2>7, <2>9, DbKept DEF IInv
<1>7. CASE SubmitRefused
    BY <1>0, <1>7, DbKept, UiKept DEF SubmitRefused, uiVars, IInv
<1>8. CASE SubmitFails
    BY <1>8, LeaveKeeps DEF SubmitFails, Quit
<1> QED BY <1>2, <1>3, <1>4, <1>5, <1>6, <1>7, <1>8 DEF submit_dialog

LEMMA DialogKeeps == ASSUME IInv, handle_dialog_key PROVE IInv'
<1>1. CASE Quit
    BY <1>1, LeaveKeeps DEF Quit
<1>2. CASE Cancel
    <2>1. DialogInv' /\ UNCHANGED <<dbVars, file, tab, shown, index, config>>
        BY <1>2, CloseKeeps DEF Cancel
    <2>2. IndexInv' /\ ConfigInv'
        BY <2>1 DEF IInv, IndexInv, ConfigInv
    <2> QED BY <2>1, <2>2, DbKept DEF IInv
<1> QED BY <1>1, <1>2, EditKeeps, SubmitKeeps DEF handle_dialog_key

-----------------------------------------------------------------------------
(* The invariant.                                                            *)

LEMMA ElsewhereKeeps == ASSUME IInv, Elsewhere PROVE IInv'
<1>0. /\ TableInv /\ ShownInv
      /\ UNCHANGED <<file, mode, tab, dialog, shown, index, config>>
    BY DEF IInv, Elsewhere, uiVars
<1>1. IndexInv' /\ ConfigInv' /\ DialogInv'
    BY <1>0, UiKept DEF IInv
<1>2. CASE ElsewhereUsers
    <2>1. \A u \in DOMAIN users : u \in Nat /\ (~users[u].enabled) \in BOOLEAN
        BY <1>0 DEF TableInv
    <2>2. TableInv' /\ ShownInv'
        BY <1>0, <1>2, <2>1, UsersChange DEF ElsewhereUsers
    <2> QED BY <1>1, <2>2 DEF IInv
<1>3. CASE ElsewhereGroups
    <2>1. TableInv' /\ ShownInv'
        BY <1>0, <1>3, GroupsChange, MembersChange DEF ElsewhereGroups
    <2> QED BY <1>1, <2>1 DEF IInv
<1>4. CASE ElsewhereRules
    <2>1. ASSUME NEW p, NEW a \in {"allow", "deny"}
          PROVE  [id |-> 0, priority |-> ParsesAs(p, 0), target_host |-> "", target_port |-> -1, action |-> a] \in Rule
        <3>1. ParsesAs(p, 0) \in Int
            BY TuiAssumption DEF ParsesAs
        <3>2. "" \in Text
            BY DEF Text
        <3>3. 0 \in Nat /\ -1 \in Int
            OBVIOUS
        <3> QED BY <3>1, <3>2, <3>3 DEF Rule
    <2>2. TableInv' /\ ShownInv'
        <3>1. CASE \E p \in RuleText[1], a \in {"allow", "deny"} :
                     create_acl_rule([id |-> 0, priority |-> ParsesAs(p, 0), target_host |-> "",
                                      target_port |-> -1, action |-> a])
            BY <1>0, <1>4, <2>1, <3>1, RuleMade DEF ElsewhereRules
        <3>2. CASE \E r \in rules : delete_acl_rule(r.id)
            BY <1>0, <1>4, <3>2, RuleDeleted DEF ElsewhereRules
        <3> QED BY <1>4, <3>1, <3>2 DEF ElsewhereRules
    <2> QED BY <1>1, <2>2 DEF IInv
<1> QED BY <1>2, <1>3, <1>4 DEF Elsewhere

LEMMA TuiNext == IInv /\ [Next]_vars => IInv'
<1> SUFFICES ASSUME IInv, [Next]_vars PROVE IInv'
    OBVIOUS
<1>1. CASE UNCHANGED vars
    BY <1>1, DbKept, UiKept DEF vars, uiVars, IInv
<1>2. CASE Start
    <2>1. DialogInv'
        BY <1>2 DEF IInv, Start, DialogInv, DialogMode
    <2>2. IndexInv' /\ ConfigInv'
        BY <1>2 DEF IInv, Start, IndexInv, ConfigInv
    <2> QED BY <1>2, <2>1, <2>2, DbKept DEF IInv, Start
<1>3. CASE ReadFails
    BY <1>3, LeaveKeeps DEF ReadFails
<1>4. CASE Key
    BY <1>4, NormalKeeps, DialogKeeps DEF Key
<1> QED BY <1>1, <1>2, <1>3, <1>4, ReadKeeps, ElsewhereKeeps DEF Next, Terminated

\* The lists of the terminal, its selections and its dialog fit the tables and
\* each other, for any tables and any number of writes elsewhere.
THEOREM TuiInvariant == Spec => []IInv
<1> QED BY TuiInit, TuiNext, PTL DEF Spec

\* submit_dialog finds the fields it indexes, whatever keys were pressed before
\* and whichever query failed (DialogMatchesMode).
THEOREM DialogSafety == Spec => []DialogMatchesMode
<1>1. ASSUME IInv PROVE DialogMatchesMode
    <2>1. mode = "Normal" => dialog = NoDialog
        BY <1>1 DEF IInv, DialogInv, DialogMode
    <2>2. ASSUME mode \in DialogMode
          PROVE  /\ Len(dialog.fields) = FieldCount[mode] /\ DOMAIN dialog.fields = 1..Len(dialog.fields)
                 /\ dialog.active \in 1..Len(dialog.fields)
                 /\ \A i \in 1..Len(dialog.fields) : FieldOK(mode, i, dialog.fields[i])
        BY <1>1, <2>2 DEF IInv, DialogInv, DialogOK
    <2>3. ASSUME mode \in DialogMode, NEW i \in DOMAIN dialog.fields, dialog.fields[i].options # << >>
          PROVE  /\ dialog.fields[i].selected < Len(dialog.fields[i].options)
                 /\ dialog.fields[i].value = dialog.fields[i].options[dialog.fields[i].selected + 1]
        BY <2>2, <2>3 DEF FieldOK
    <2> QED BY <2>1, <2>2, <2>3 DEF DialogMatchesMode
<1> QED BY <1>1, TuiInvariant, PTL

-----------------------------------------------------------------------------
(* What a key press does.                                                    *)

\* Most keys leave the tables.
LEMMA NoWrite ==
    ASSUME UNCHANGED <<users, rules, members>> PROVE KeyActsOnShown
BY DEF KeyActsOnShown

LEMMA DeleteActs == ASSUME IInv, DeleteRule PROVE KeyActsOnShown
<1>0. /\ tab = "AclRules" /\ index[tab] < Len(shown.acl) /\ index[tab] \in Nat /\ UNCHANGED <<users, members>>
      /\ rules' = {r \in rules : r.id # Selected(shown.acl).id}
    BY DEF IInv, IndexInv, DeleteRule, HasSelected, delete_acl_rule
<1>1. shown.acl \in Seq(Rule)
    BY DEF IInv, ShownInv
<1>2. index[tab] + 1 \in 1..Len(shown.acl)
    BY <1>0, <1>1
<1>3. \A r \in rules \ rules' : r = Selected(shown.acl)
    BY <1>0, <1>2 DEF IInv, ShownInv, Selected
<1> QED BY <1>0, <1>3 DEF KeyActsOnShown

LEMMA ToggleActs == ASSUME IInv, ToggleUser PROVE KeyActsOnShown
<1>0. /\ tab = "Users" /\ UNCHANGED <<rules, members>> /\ users \in Seq(User)
      /\ users' = [users EXCEPT ![index["Users"] + 1].enabled = ~shown.users[index["Users"] + 1].enabled]
    BY DEF IInv, TableInv, ToggleUser, set_user_enabled, Selected
<1>1. ASSUME NEW u \in DOMAIN users, users'[u].enabled # users[u].enabled
      PROVE  u = index["Users"] + 1 /\ users'[u].enabled = ~shown.users[u].enabled
    <2>1. users[u] \in User
        BY <1>0
    <2>2. u = index["Users"] + 1
        BY <1>0, <1>1
    <2>3. users'[u] = [users[u] EXCEPT !.enabled = ~shown.users[u].enabled]
        BY <1>0, <2>2
    <2> QED BY <2>1, <2>2, <2>3 DEF User
<1> QED BY <1>0, <1>1 DEF KeyActsOnShown

LEMMA SubmitActs == ASSUME IInv, submit_dialog, mode \in DialogMode PROVE KeyActsOnShown
<1>1. CASE SubmitUser
    <2>1. users' = Append(users, [name |-> field_value(1), enabled |-> TRUE]) /\ UNCHANGED <<rules, members>>
        BY <1>1 DEF SubmitUser, create_user
    <2>2. users \in Seq(User)
        BY DEF IInv, TableInv
    <2>3. \A u \in DOMAIN users : users'[u] = users[u]
        BY <2>1, <2>2
    <2> QED BY <2>1, <2>3 DEF KeyActsOnShown
<1>2. CASE SubmitRule
    BY <1>2 DEF SubmitRule, create_acl_rule, KeyActsOnShown
<1>3. CASE SubmitMember
    <2>1. PICK g \in DOMAIN shown.groups : shown.groups[g] = field_value(1) /\ members' = members \cup {<<index[tab] + 1, g>>}
        BY <1>3 DEF SubmitMember, add_user_to_group
    <2>2. tab = "Users" /\ UNCHANGED <<users, rules>>
        BY <1>3 DEF SubmitMember, IInv, DialogInv
    <2>3. groups[g] = field_value(1)
        BY <2>1 DEF IInv, ShownInv
    <2>4. \A p \in members' \ members : p[1] = index["Users"] + 1 /\ groups[p[2]] = dialog.fields[1].value
        BY <2>1, <2>2, <2>3 DEF field_value
    <2> QED BY <2>2, <2>4 DEF KeyActsOnShown
<1>4. CASE SubmitGroup \/ SubmitConfig \/ SubmitRefused \/ SubmitFails
    BY <1>4, NoWrite DEF SubmitGroup, SubmitConfig, SubmitRefused, SubmitFails, Quit, dbVars
<1> QED BY <1>1, <1>2, <1>3, <1>4 DEF submit_dialog

\* A key press deletes, toggles or assigns what the user sees as selected,
\* however old the lists are and whatever was written elsewhere meanwhile
\* (ActsOnShown): rules never change and their ids are not given again.
THEOREM ActsSafety == Spec => ActsOnShown
<1>1. IInv /\ [Next]_vars => [KeyActsOnShown]_vars
    <2> SUFFICES ASSUME IInv, Next PROVE KeyActsOnShown
        OBVIOUS
    <2>1. CASE Key /\ handle_normal_key
        <3>1. CASE handle_delete_action
            <4>1. CASE RemoveSan
                BY <4>1, NoWrite DEF RemoveSan, dbVars
            <4> QED BY <3>1, <4>1, DeleteActs, ToggleActs DEF handle_delete_action
        <3>2. CASE ~handle_delete_action
            BY <2>1, <3>2, NoWrite
               DEF handle_normal_key, Quit, Turn, move_selection, start_add_dialog, start_assign_group_dialog,
                   EditPath, Open, RefreshSessions, save_config, NormalFails, dbVars
        <3> QED BY <3>1, <3>2
    <2>2. CASE Key /\ handle_dialog_key
        <3>1. CASE submit_dialog
            BY <2>2, <3>1, SubmitActs DEF handle_dialog_key
        <3>2. CASE ~submit_dialog
            BY <2>2, <3>2, NoWrite DEF handle_dialog_key, Quit, Cancel, next_field, Choose, Type, dbVars
        <3> QED BY <3>1, <3>2
    <2>3. CASE UNCHANGED keys
        BY <2>3 DEF KeyActsOnShown
    <2> QED BY <2>1, <2>2, <2>3 DEF Next, Key, Start, Read, ReadFails, Elsewhere, Terminated, vars
<1> QED BY <1>1, TuiInvariant, PTL DEF Spec, ActsOnShown

-----------------------------------------------------------------------------
(* Where a step leaves the selections.                                       *)

LEMMA ReadSelects ==
    ASSUME IInv, Read, index'["AclRules"] # index["AclRules"]
    PROVE  index'["AclRules"] = 0 \/ index'["AclRules"] < Len(shown'.acl)
<1>1. PICK s \in get_acl_rules :
        /\ shown' = [shown EXCEPT !.acl = s]
        /\ index' = IF mode = "Normal"
                    THEN [index EXCEPT !["AclRules"] = Clamp(@, Cardinality(rules))] ELSE index
    BY DEF Read
<1>2. Len(s) = Cardinality(rules) /\ Cardinality(rules) \in Nat
    BY ListsRules, FS_CardinalityType DEF IInv, TableInv
<1>3. shown'.acl = s
    BY <1>1 DEF IInv, ShownInv
<1>4. index \in [Tab -> Nat] /\ "AclRules" \in Tab
    BY TabIs DEF IInv, IndexInv
<1>5. index'["AclRules"] = Clamp(index["AclRules"], Cardinality(rules))
    BY <1>1, <1>4
<1> QED BY <1>2, <1>3, <1>4, <1>5, ClampBounds

LEMMA MoveSelects ==
    ASSUME IInv, NEW delta \in {1, -1}, move_selection(delta), index'["AclRules"] # index["AclRules"]
    PROVE  index'["AclRules"] < Len(shown'.acl)
<1>1. index \in [Tab -> Nat] /\ tab \in Tab /\ "AclRules" \in Tab
    BY TabIs DEF IInv, IndexInv
<1>2. index' = [index EXCEPT ![tab] = Wrap(index[tab] + delta, RowCount(tab))] /\ RowCount(tab) > 0 /\ UNCHANGED shown
    BY DEF move_selection
<1>3. tab = "AclRules"
    BY <1>1, <1>2
<1>4. RowCount(tab) = Len(shown.acl) /\ RowCount(tab) \in Nat
    BY <1>1, <1>3, RowCountType DEF RowCount
<1>5. Wrap(index[tab] + delta, RowCount(tab)) < RowCount(tab)
    BY <1>1, <1>2, <1>4, WrapBounds
<1> QED BY <1>1, <1>2, <1>3, <1>4, <1>5

\* The selections stay on rows, and no key leaves that of the rules behind the
\* end (SelectionOnRow), however the lists change between two reads.
THEOREM SelectionSafety == Spec => SelectionOnRow
<1>1. IInv /\ IInv' /\ [Next]_vars => [SelectsRow]_vars
    <2> SUFFICES ASSUME IInv, IInv', Next PROVE SelectsRow
        OBVIOUS
    <2>1. \A t \in Tab \ {"AclRules"} : RowCount(t)' > 0 => index'[t] < RowCount(t)'
        BY TabIs DEF IInv, IndexInv, RowCount
    <2>2. ASSUME index'["AclRules"] # index["AclRules"]
          PROVE  index'["AclRules"] = 0 \/ index'["AclRules"] < Len(shown'.acl)
        <3>1. CASE Read
            BY <2>2, <3>1, ReadSelects
        <3>2. CASE Leave
            BY <3>2, TabIs DEF Leave
        <3>3. CASE \E delta \in {1, -1} : move_selection(delta)
            BY <2>2, <3>3, MoveSelects
        <3>4. CASE RemoveSan
            <4>1. index \in [Tab -> Nat] /\ tab = "Tls"
                BY <3>4 DEF IInv, IndexInv, RemoveSan
            <4>2. index'["AclRules"] = index["AclRules"]
                BY <3>4, <4>1, TabIs DEF RemoveSan
            <4> QED BY <2>2, <4>2
        <3>5. CASE UNCHANGED index
            BY <2>2, <3>5
        <3> QED
            <4>1. CASE Key /\ handle_normal_key
                BY <4>1, <3>2, <3>3, <3>4, <3>5
                   DEF handle_normal_key, Quit, Turn, start_add_dialog, start_assign_group_dialog, EditPath, Open,
                       handle_delete_action, DeleteRule, ToggleUser, RefreshSessions, save_config, NormalFails, uiVars
            <4>2. CASE Key /\ handle_dialog_key
                BY <4>2, <3>2, <3>5
                   DEF handle_dialog_key, Quit, Cancel, next_field, Choose, Type, submit_dialog, SubmitUser,
                       SubmitGroup, SubmitRule, SubmitMember, SubmitConfig, SubmitRefused, SubmitFails, Wait, uiVars
            <4> QED BY <4>1, <4>2, <3>1, <3>2, <3>5 DEF Next, Key, Start, ReadFails, Elsewhere, Terminated, vars, uiVars
    <2> QED BY <2>1, <2>2 DEF SelectsRow
<1> QED BY <1>1, TuiInvariant, PTL DEF Spec, SelectionOnRow

===============================================================================
