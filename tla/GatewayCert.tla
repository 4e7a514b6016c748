----------------------------- MODULE GatewayCert ------------------------------
(*****************************************************************************)
(* The self-signed certificate the gateway keeps between starts:             *)
(* load_or_generate_cert and build_tls_config of                             *)
(* crates/rdg-server/src/main.rs, with the certificates table of             *)
(* crates/rdg-core/src/db/sqlite.rs and the two files under certs/.          *)
(*                                                                           *)
(* A key pair is its serial number, and pairSans[n] are the subject names it *)
(* was made for.  A file holds a serial number, Absent or Torn.  The names a *)
(* start wants come from the configuration and the addresses of the host's   *)
(* interfaces, and may change, and change back, while the gateway is down.   *)
(* The process may die at any step or inside a write, and every query fail.  *)
(*****************************************************************************)
EXTENDS Naturals, Sequences

CONSTANTS Sans,     \* the sets of subject names a start may want
          MaxPairs  \* bound: key pairs generated

ASSUME CertAssumption == MaxPairs \in Nat

VARIABLES
    pc,        \* "Down", "Look", "WriteCert", "WriteKey", "Save", "Build", "Up", "Failed"
    wanted,    \* san_names of this start, or of the next one while down
    pairSans,  \* names of the pairs generated so far
    crt,       \* gateway.crt
    key,       \* gateway.key
    row,       \* the names in the newest row of certificates, as <<names>>; << >>: no row
    served,    \* cert_pem and key_pem of this start, as <<cert, key>>
    behind,    \* the files were opened for writing after the newest row was saved (history)
    doubted    \* names once given up, or with a row a start did not see (history)

fileVars == <<crt, key, row>>
history == <<behind, doubted>>
vars == <<pc, wanted, pairSans, fileVars, served, history>>

Absent == 0
Torn == MaxPairs + 1

Init ==
    /\ pc = "Down" /\ wanted \in Sans
    /\ pairSans = << >> /\ crt = Absent /\ key = Absent /\ row = << >>
    /\ served = <<Absent, Absent>>
    /\ behind = FALSE /\ doubted = {}

\* While the gateway is down the host may come to want other names (external).
Rename ==
    /\ pc = "Down"
    /\ wanted' \in Sans \ {wanted}
    /\ doubted' = doubted \cup {wanted}
    /\ UNCHANGED <<pc, pairSans, fileVars, served, behind>>

Start ==
    /\ pc = "Down"
    /\ pc' = "Look"
    /\ UNCHANGED <<wanted, pairSans, fileVars, served, history>>

\* Mutant: the names are not compared.
Reusable_AnyNames == row # << >> /\ crt # Absent /\ key # Absent

\* The newest row has the wanted names, and both files exist.
Reusable == row = <<wanted>> /\ crt # Absent /\ key # Absent

\* The files are read as they are.
Reuse ==
    /\ pc = "Look" /\ Reusable
    /\ served' = <<crt, key>>
    /\ pc' = "Build"
    /\ UNCHANGED <<wanted, pairSans, fileVars, history>>

\* No pair that fits, or get_certificate failed: a new one is generated.
Generate ==
    /\ pc = "Look"
    /\ Len(pairSans) < MaxPairs
    /\ pairSans' = Append(pairSans, wanted)
    /\ served' = <<Len(pairSans) + 1, Len(pairSans) + 1>>
    /\ pc' = "WriteCert"
    /\ doubted' = IF row = <<wanted>> THEN doubted \cup {wanted} ELSE doubted
    /\ UNCHANGED <<wanted, fileVars, behind>>

\* fs::write of the certificate, then of the key, truncates the file first; an error, or
\* the death of the process, ends the start.
WriteCert ==
    /\ pc = "WriteCert"
    /\ \/ crt' = served[1] /\ pc' = "WriteKey"
       \/ crt' \in {crt, Torn} /\ pc' = "Failed"
    /\ behind' = TRUE
    /\ UNCHANGED <<wanted, pairSans, key, row, served, doubted>>

WriteKey ==
    /\ pc = "WriteKey"
    /\ \/ key' = served[2] /\ pc' = "Save"
       \/ key' \in {key, Torn} /\ pc' = "Failed"
    /\ UNCHANGED <<wanted, pairSans, crt, row, served, history>>

\* Mutant: the names of every row ever saved are kept.
Save_Append ==
    /\ pc = "Save"
    /\ \/ row' = Append(row, wanted) /\ behind' = FALSE
       \/ UNCHANGED <<row, behind>>
    /\ pc' = "Build"
    /\ UNCHANGED <<wanted, pairSans, crt, key, served, doubted>>

\* save_certificate inserts a row; its failure is only logged.
Save ==
    /\ pc = "Save"
    /\ \/ row' = <<wanted>> /\ behind' = FALSE
       \/ UNCHANGED <<row, behind>>
    /\ pc' = "Build"
    /\ UNCHANGED <<wanted, pairSans, crt, key, served, doubted>>

\* build_tls_config takes a certificate and a key that parse and belong together.
Build ==
    /\ pc = "Build"
    /\ pc' = IF served[1] = served[2] /\ served[1] # Torn THEN "Up" ELSE "Failed"
    /\ UNCHANGED <<wanted, pairSans, fileVars, served, history>>

\* The process ends: stopped, killed at any step, or after an error.
Stop ==
    /\ pc # "Down"
    /\ pc' = "Down" /\ served' = <<Absent, Absent>>
    /\ UNCHANGED <<wanted, pairSans, fileVars, history>>

Startup == Start \/ Reuse \/ Generate \/ WriteCert \/ WriteKey \/ Save \/ Build

Next == Rename \/ Startup \/ Stop

Spec == Init /\ [][Next]_vars

-----------------------------------------------------------------------------
(* Properties.                                                               *)

\* Types of the variables.
TypeOK ==
    /\ pc \in {"Down", "Look", "WriteCert", "WriteKey", "Save", "Build", "Up", "Failed"}
    /\ wanted \in Sans /\ doubted \subseteq Sans /\ behind \in BOOLEAN
    /\ pairSans \in Seq(Sans)
    /\ crt \in Nat /\ key \in Nat
    /\ row \in Seq(Sans) /\ Len(row) <= 1
    /\ served \in Nat \X Nat

\* Certificate c and key k are one pair, whole, for names s.
IsPair(c, k, s) == c = k /\ c \in DOMAIN pairSans /\ pairSans[c] = s

\* What a start gets as far as build_tls_config is one pair, whole, for the names it
\* wants, whichever step an earlier start died or failed at, but in one situation: the
\* files were written to after the newest row was saved, and that row is for the names
\* wanted now because they came back after they were given up, or because the start that
\* wrote could not read it.  There a stale pair may be served, and a torn or mixed one
\* fails every start: what is up serves a whole pair.
CertificateFits ==
    /\ pc \in {"Build", "Up"} =>
         \/ IsPair(served[1], served[2], wanted)
         \/ behind /\ row = <<wanted>> /\ wanted \in doubted
    /\ pc = "Up" => served[1] = served[2] /\ served[1] \in DOMAIN pairSans

===============================================================================
