--------------------------------- MODULE Acl ----------------------------------
(*****************************************************************************)
(* The rule engine of crates/rdg-core/src/acl.rs.                            *)
(*                                                                           *)
(* A character is a number: 0 for '*', an odd one for a lower-case letter,   *)
(* the even one after it for its upper case.  An address is a family and a   *)
(* number of that family's width.  A pattern is its text with what splitting *)
(* it at '/' and parsing both halves gives, a host its text with the address *)
(* it parses as; optional values are sets of at most one.                    *)
(*****************************************************************************)
EXTENDS Integers, Sequences, SequencesExt, Bitwise

CONSTANT Width      \* family -> bits of an address: 32 and 128 in the code
ASSUME WidthAssumption == \A f \in DOMAIN Width : Width[f] \in Nat \ {0}

Star == 0

\* to_ascii_lowercase.
Lower(s) == [i \in DOMAIN s |-> IF s[i] # Star /\ s[i] % 2 = 0 THEN s[i] - 1 ELSE s[i]]

\* The loop, from the indices it starts with; star is -1 before the first one.
glob_matches(pattern, candidate) ==
    LET P == Lower(pattern)
        C == Lower(candidate)
        Run[p \in 0..Len(P), c \in 0..Len(C), star \in -1..Len(P), back \in 0..Len(C)] ==
            IF c = Len(C) THEN \A i \in (p + 1)..Len(P) : P[i] = Star
            ELSE IF p < Len(P) /\ P[p + 1] = C[c + 1] THEN Run[p + 1, c + 1, star, back]
            ELSE IF p < Len(P) /\ P[p + 1] = Star THEN Run[p + 1, c, p, c]
            ELSE IF star # -1 THEN Run[star + 1, back + 1, star, back + 1]
            ELSE FALSE
    IN Run[0, 0, -1, 0]

-----------------------------------------------------------------------------
(* Networks.                                                                 *)

\* parse_cidr: a prefix longer than the address makes it no network.
parse_cidr(pattern) == {n \in pattern.net : n.prefix <= Width[n.fam]}

\* Mutant: no case for prefix 0; a shift by the whole width wraps to none.
mask_NoZero(fam, prefix) ==
    ((2^Width[fam] - 1) * 2^((Width[fam] - prefix) % Width[fam])) % 2^Width[fam]

\* ipv4_mask and ipv6_mask.
mask(fam, prefix) ==
    IF prefix = 0 THEN 0 ELSE ((2^Width[fam] - 1) * 2^(Width[fam] - prefix)) % 2^Width[fam]

\* Cidr::contains.
contains(n, ip) ==
    n.fam = ip.fam /\ (n.num & mask(n.fam, n.prefix)) = (ip.num & mask(n.fam, n.prefix))

host_matches(pattern, host) ==
    \/ pattern.text = <<Star>>
    \/ pattern.text # <<Star>> /\ \E n \in parse_cidr(pattern) : \E ip \in host.ip : contains(n, ip)
    \/ parse_cidr(pattern) = {} /\ glob_matches(pattern.text, host.text)

-----------------------------------------------------------------------------
(* Rules.                                                                    *)

\* A field that is not set fits everything.
rule_matches(rule, req) ==
    /\ rule.user \subseteq {req.user}
    /\ rule.group \subseteq req.groups
    /\ \A pattern \in rule.host : host_matches(pattern, req.host)
    /\ rule.port \subseteq {req.port}

\* What equals "allow" in any case.
Allows == {"allow", "ALLOW"}

rule_action(rule) == IF rule.action \in Allows THEN "Allow" ELSE "Deny"

\* A stable sort by falling priority.
sorted_rules(rules) ==
    LET before(i, j) == \/ rules[i].priority > rules[j].priority
                        \/ rules[i].priority = rules[j].priority /\ i < j
        order == SetToSortSeq(DOMAIN rules, before)
    IN [k \in DOMAIN rules |-> rules[order[k]]]

\* filter and max_by_key, which keeps the last of several largest.
evaluate_acl(rules, req) ==
    LET matching == SelectSeq(rules, LAMBDA rule : rule_matches(rule, req))
        largest == {i \in DOMAIN matching : \A j \in DOMAIN matching : matching[j].priority <= matching[i].priority}
    IN IF matching = <<>> THEN "Deny"
       ELSE rule_action(matching[CHOOSE i \in largest : \A j \in largest : j <= i])

\* from_db or reload, then check_access.
check_access(rules, req) == evaluate_acl(sorted_rules(rules), req)

===============================================================================
