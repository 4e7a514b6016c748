------------------------- MODULE GatewayCert_proofs ---------------------------
(*****************************************************************************)
(* Whatever step the gateway dies at, whichever query fails and however the  *)
(* names of the host change, what a later start serves is one whole pair for *)
(* the names it wants, but in the one situation CertificateFits names.       *)
(*****************************************************************************)
EXTENDS GatewayCert, TLAPS

Numbers == DOMAIN pairSans \cup {Absent, Torn}

\* A row is for the wanted names or for doubted ones, and vouches for both files unless
\* they were written to since; a start that writes to them in spite of a row for its
\* names doubts it.
RowInv ==
    row # << >> =>
        /\ row = <<wanted>> \/ row[1] \in doubted
        /\ IsPair(crt, key, row[1]) \/ (behind /\ (row = <<wanted>> => wanted \in doubted))
        /\ pc \in {"WriteCert", "WriteKey", "Save"} /\ row = <<wanted>> => wanted \in doubted

\* A start that generated a pair has written the files up to its step.
WriteInv ==
    pc \in {"WriteCert", "WriteKey", "Save"} =>
        /\ IsPair(served[1], served[2], wanted)
        /\ pc \in {"WriteKey", "Save"} => crt = served[1] /\ behind
        /\ pc = "Save" => key = served[1]

\* What is in a file, or was read from one, is a pair, torn, or nothing; the files that are read exist.
FileInv ==
    /\ crt \in Numbers /\ key \in Numbers
    /\ pc \in {"Build", "Up"} => served[1] \in Numbers \ {Absent} /\ served[2] \in Numbers \ {Absent}

CertInv == TypeOK /\ RowInv /\ WriteInv /\ FileInv /\ CertificateFits

\* The first start finds neither files nor a row.
LEMMA CertInit == Init => CertInv
<1> SUFFICES ASSUME Init PROVE CertInv
  OBVIOUS
<1>1. TypeOK
  <2>1. behind \in BOOLEAN
    BY DEF Init
  <2>2. pairSans \in Seq(Sans) /\ row \in Seq(Sans) /\ Len(row) = 0 /\ served \in Nat \X Nat
    BY DEF Init, Absent
  <2> QED
    BY <2>1, <2>2 DEF Init, TypeOK, Absent
<1>2. RowInv /\ WriteInv /\ FileInv /\ CertificateFits
  BY DEF Init, RowInv, WriteInv, FileInv, CertificateFits, Numbers
<1> QED
  BY <1>1, <1>2 DEF CertInv

\* A sequence of one.
LEMMA OneRow ==
    \A s \in Sans : <<s>> \in Seq(Sans) /\ Len(<<s>>) = 1 /\ <<s>>[1] = s /\ <<s>> # << >>
  OBVIOUS

\* Each step keeps the invariant: Rename adds the names given up to the doubted ones, Generate those
\* whose row is not used; Save runs when both files are the pair's.
LEMMA CertNext ==
    ASSUME CertInv, [Next]_vars
    PROVE  CertInv'
<1> USE CertAssumption DEF CertInv, TypeOK, RowInv, WriteInv, FileInv, CertificateFits, IsPair, Numbers,
                           Absent, Torn, fileVars, history
<1>1. CASE Rename
  <2>1. wanted' \in Sans /\ wanted' # wanted /\ doubted' = doubted \cup {wanted}
    BY <1>1 DEF Rename
  <2>2. row' = row /\ (row # << >> => row[1] \in doubted')
    BY <1>1, <2>1, OneRow DEF Rename
  <2>3. row = <<wanted'>> => wanted' \in doubted'
    BY <2>1, <2>2, OneRow
  <2> QED
    BY <1>1, <2>1, <2>2, <2>3 DEF Rename
<1>2. CASE Start
  BY <1>2 DEF Start
<1>3. CASE Reuse
  BY <1>3, OneRow DEF Reuse, Reusable
<1>4. CASE Generate
  BY <1>4 DEF Generate
<1>5. CASE WriteCert
  BY <1>5 DEF WriteCert
<1>6. CASE WriteKey
  BY <1>6 DEF WriteKey
<1>7. CASE Save
  <2>1. CASE row' = <<wanted>> /\ behind' = FALSE
    <3>1. row' \in Seq(Sans) /\ Len(row') = 1 /\ row'[1] = wanted
      BY <2>1, OneRow
    <3>2. IsPair(crt, key, wanted) /\ UNCHANGED <<wanted, pairSans, crt, key, served, doubted>>
      BY <1>7 DEF Save
    <3>3. TypeOK'
      <4>1. behind' \in BOOLEAN
        BY <2>1
      <4>2. pc' = "Build"
        BY <1>7 DEF Save
      <4> QED
        BY <3>1, <3>2, <4>1, <4>2
    <3>4. RowInv'
      BY <1>7, <2>1, <3>1, <3>2 DEF Save
    <3>5. WriteInv' /\ FileInv'
      BY <1>7, <2>1, <3>2 DEF Save
    <3>6. CertificateFits'
      BY <1>7, <2>1, <3>2 DEF Save
    <3> QED
      BY <3>3, <3>4, <3>5, <3>6
  <2>2. CASE UNCHANGED <<row, behind>>
    BY <1>7, <2>2 DEF Save
  <2> QED
    BY <1>7, <2>1, <2>2 DEF Save
<1>8. CASE Build
  BY <1>8 DEF Build
<1>9. CASE Stop
  BY <1>9 DEF Stop
<1>10. CASE UNCHANGED vars
  BY <1>10 DEF vars
<1> QED
  BY <1>1, <1>2, <1>3, <1>4, <1>5, <1>6, <1>7, <1>8, <1>9, <1>10 DEF Next, Startup

\* CertificateFits for any sets of names, that come and go as they like, and any number of starts,
\* with crashes, failed writes and failed queries in any combination.
THEOREM CertificateSafety == Spec => []CertificateFits
<1>1. CertInv => CertificateFits
  BY DEF CertInv
<1> QED
  BY <1>1, CertInit, CertNext, PTL DEF Spec

\* Whatever fails, crashes or comes back, the state stays well formed: at most one row,
\* and what a start serves are two numbers of pairs (or of a missing or torn file).
THEOREM CertTypes == Spec => []TypeOK
<1>1. CertInv => TypeOK
  BY DEF CertInv
<1> QED
  BY <1>1, CertInit, CertNext, PTL DEF Spec

===============================================================================
