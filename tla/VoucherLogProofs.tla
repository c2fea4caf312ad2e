-------------------------- MODULE VoucherLogProofs --------------------------
(***************************************************************************)
(* Theorems about VoucherLog, for every set of channels and amounts, every *)
(* bound on the file and every combination of faults they name.            *)
(***************************************************************************)
EXTENDS VoucherLog, SequenceTheorems, WellFoundedInduction, TLAPS

\* An unterminated file has a last line, which no fsync has covered; a record
\* written to its end has its "\n".
Shape == /\ ~term => Len(file) > 0 /\ synced < Len(file)
         /\ write.at = "line" => term

TypeInv == TypeOK /\ Shape

USE AmountsAssumption, LinesAssumption, FaultsAssumption, InstanceAssumption

\* The idle write position is one of the positions.
LEMMA NoWriteType == NoWrite \in [rec : Record, at : Position, whole : BOOLEAN]
<1>1. PICK c \in Channels, a \in Amounts : TRUE
  OBVIOUS
<1>2. [ch |-> c, amt |-> a] \in Record
  BY DEF Record
<1>3. QED
  BY <1>2 DEF NoWrite, Position

\* An indexed level is an integer.
LEMMA LevelInt ==
  ASSUME NEW idx \in Index, NEW c \in Channels
  PROVE  idx[c] \in Int /\ (idx[c] = None \/ idx[c] \in Amounts)
<1>1. idx[c] \in Amounts \cup {None}
  BY DEF Index
<1>2. None \in Int
  BY DEF None
<1>3. \A a \in Amounts : a \in Int
  BY AmountsAssumption
<1>4. QED
  BY <1>1, <1>2, <1>3

\* The first n lines of a file are a file.
LEMMA PrefixType ==
  ASSUME NEW f \in Seq(Line), NEW n \in 0..Len(f)
  PROVE  /\ SubSeq(f, 1, n) \in Seq(Line)
         /\ Len(SubSeq(f, 1, n)) = n
         /\ \A i \in 1..n : SubSeq(f, 1, n)[i] = f[i]
<1> DEFINE g == [i \in 1..n |-> f[i]]
<1>1. SubSeq(f, 1, n) = g
  BY SMT
<1>2. g \in Seq(Line) /\ Len(g) = n
  BY SMT
<1>3. QED
  BY <1>1, <1>2

\* The empty, unopened log has the right types.
LEMMA TypeInit == Init => TypeInv
  BY NoWriteType DEF Init, TypeInv, TypeOK, Shape, NoIndex, Index, Line

\* Every operation and every fault keeps the types.
LEMMA TypeStep == TypeInv /\ [Next]_vars => TypeInv'
<1> SUFFICES ASSUME TypeInv, [Next]_vars PROVE TypeInv'
  OBVIOUS
<1> USE DEF TypeInv, TypeOK, Shape
<1>1. CASE OpenCorrupt
  BY <1>1 DEF OpenCorrupt
<1>2. CASE OpenQuarantine
  <2>1. Len(file) - 1 \in 0..Len(file)
    BY <1>2 DEF OpenQuarantine, TornTail
  <2>2. file' \in Seq(Line) /\ Len(file') = Len(file) - 1
    BY <1>2, <2>1, PrefixType DEF OpenQuarantine
  <2>3. QED
    BY <1>2, <2>1, <2>2 DEF OpenQuarantine, Serve
<1>3. CASE OpenNewline
  BY <1>3 DEF OpenNewline, Serve
<1>4. CASE OpenClean
  BY <1>4 DEF OpenClean, Serve
<1>5. ASSUME NEW r \in Record, Append_(r) PROVE TypeInv'
  BY <1>5 DEF Append_, Position
<1>6. CASE WriteSync
  <2>1. PICK q \in Later(write.at) :
          /\ file' = IF term THEN Append(file, LineAt(q))
                             ELSE [file EXCEPT ![Len(file)] = LineAt(q)]
          /\ term' = (q = "line")
          /\ write' = [write EXCEPT !.at = q]
          /\ UNCHANGED <<synced, status, index, acked>>
    BY <1>6 DEF WriteSync
  <2>2. q \in Position /\ LineAt(q) \in Line
    BY DEF Later, LineAt, Position, Line, Record
  <2>3. file' \in Seq(Line) /\ Len(file') \in {Len(file), Len(file) + 1}
        /\ (term => Len(file') = Len(file) + 1)
    <3>1. CASE term
      BY <2>1, <2>2, <3>1, AppendProperties
    <3>2. CASE ~term
      BY <2>1, <2>2, <3>2, ExceptSeq
    <3>3. QED
      BY <3>1, <3>2
  <2>4. term' \in BOOLEAN /\ (q = "line" => term')
    BY <2>1, Zenon
  <2>5. write' \in [rec : Record, at : Position, whole : BOOLEAN] /\ write'.at = q
    BY <2>1, <2>2
  <2>6. ~term' => Len(file') > 0 /\ synced' < Len(file')
    BY <2>1, <2>3
  <2>7. QED
    BY <2>1, <2>3, <2>4, <2>5, <2>6
<1>7. CASE AppendReturns
  <2>1. write.rec \in Record /\ write.rec.ch \in Channels /\ write.rec.amt \in Amounts
    BY DEF Record
  <2>2. index' \in Index
    BY <1>7, <2>1 DEF AppendReturns, Index
  <2>3. QED
    BY <1>7, <2>1, <2>2, NoWriteType DEF AppendReturns, NoWrite
<1>8. CASE AppendThrows
  BY <1>8, NoWriteType DEF AppendThrows, NoWrite
<1>9. ASSUME NEW c \in Channels, ServeHighest(c) PROVE TypeInv'
  BY <1>9 DEF ServeHighest, Index, Record, None
<1>10. CASE Crash
  BY <1>10, NoWriteType DEF Crash, NoIndex, NoWrite, Index
<1>11. CASE PowerLoss
  <2>1. PICK n \in synced..Len(file) :
          \/ file' = SubSeq(file, 1, n) /\ term' = (n = Len(file) => term)
          \/ /\ n > synced /\ term' = FALSE
             /\ \E p \in BOOLEAN : file' = [SubSeq(file, 1, n) EXCEPT ![n].parses = p]
    BY <1>11 DEF PowerLoss
  <2>2. SubSeq(file, 1, n) \in Seq(Line) /\ Len(SubSeq(file, 1, n)) = n
    BY PrefixType
  <2>3. file' \in Seq(Line) /\ Len(file') = n
    <3>1. CASE file' = SubSeq(file, 1, n)
      BY <2>2, <3>1
    <3>2. ASSUME NEW p \in BOOLEAN, n > synced,
                   file' = [SubSeq(file, 1, n) EXCEPT ![n].parses = p]
          PROVE  file' \in Seq(Line) /\ Len(file') = n
      <4> DEFINE e == [SubSeq(file, 1, n)[n] EXCEPT !.parses = p]
      <4>1. n \in 1..Len(SubSeq(file, 1, n))
        BY <2>2, <3>2
      <4>2. SubSeq(file, 1, n)[n] \in Line
        BY <2>2, <4>1
      <4>3. e \in Line
        BY <4>2 DEF Line
      <4>4. file' = [SubSeq(file, 1, n) EXCEPT ![n] = e]
        BY <3>2
      <4>5. QED
        <5> DEFINE g == SubSeq(file, 1, n)
        <5>1. g \in Seq(Line) /\ Len(g) = n /\ n \in 1..Len(g)
          BY <2>2, <4>1
        <5> HIDE DEF g, e
        <5>2. [g EXCEPT ![n] = e] \in Seq(Line) /\ Len([g EXCEPT ![n] = e]) = Len(g)
          BY <5>1, <4>3, ExceptSeq
        <5>3. QED
          BY <5>1, <5>2, <4>4 DEF g
    <3>3. QED
      BY <2>1, <3>1, <3>2
  <2>4. term' \in BOOLEAN /\ (~term' => n > 0)
    <3>1. CASE term' = (n = Len(file) => term)
      <4>1. term' \in BOOLEAN /\ (~term' => n = Len(file) /\ ~term)
        BY <3>1, Zenon
      <4>2. QED
        BY <4>1
    <3>2. CASE n > synced /\ term' = FALSE
      <4>1. n > 0
        BY <3>2
      <4>2. QED
        BY <3>2, <4>1, Zenon
    <3>3. QED
      BY <2>1, <3>1, <3>2
  <2>5. synced' = IF term' THEN n ELSE n - 1
    BY <1>11, <2>3 DEF PowerLoss
  <2>6. synced' \in 0..n /\ (~term' => synced' < n)
    BY <2>4, <2>5
  <2>7. /\ status' = "down" /\ index' = NoIndex
        /\ write' = NoWrite /\ acked' = acked
    BY <1>11 DEF PowerLoss
  <2>8. QED
    BY <2>3, <2>4, <2>6, <2>7, NoWriteType DEF NoIndex, Index, NoWrite
<1>12. CASE UNCHANGED vars
  BY <1>12 DEF vars
<1>13. QED
  BY <1>1, <1>2, <1>3, <1>4, <1>5, <1>6, <1>7, <1>8, <1>9, <1>10, <1>11, <1>12 DEF Next

\* TypeOK is an invariant, whatever fails and whenever.
THEOREM TypeCorrect == Spec => []TypeOK
<1>1. TypeInv => TypeOK
  BY DEF TypeInv
<1>2. QED
  BY <1>1, TypeInit, TypeStep, PTL DEF Spec


\* Of the bytes not fsynced a power loss leaves a prefix, and only its last line
\* can differ from what was written: then it has no "\n", no fsync covers it, and
\* it can be read only if it is whole.
LEMMA PowerLeaves ==
  ASSUME TypeInv, PowerLoss
  PROVE  \E n \in synced..Len(file) :
           /\ Len(file') = n
           /\ \A i \in 1..n : i # n \/ term' => file'[i] = file[i]
           /\ \A i \in 1..n : file'[i].parses => file'[i] = file[i]
           /\ ~term' => n > synced
           /\ n = Len(file) /\ ~term => term' = FALSE
<1> USE DEF TypeInv, TypeOK
<1>1. PICK n \in synced..Len(file) :
        \/ /\ file' = SubSeq(file, 1, n)
           /\ term' = (n = Len(file) => term)
        \/ /\ n > synced
           /\ \E p \in BOOLEAN :
                /\ p => file[n].parses
                /\ file' = [SubSeq(file, 1, n) EXCEPT ![n].parses = p]
           /\ term' = FALSE
  BY DEF PowerLoss
<1> DEFINE g == SubSeq(file, 1, n)
<1>2. g \in Seq(Line) /\ Len(g) = n /\ n \in 0..Len(file) /\ \A i \in 1..n : g[i] = file[i]
  BY PrefixType
<1>3. n \in Nat /\ synced \in 0..n
  BY <1>2
<1> HIDE DEF g
<1>4. /\ Len(file') = n
      /\ \A i \in 1..n : i # n \/ term' => file'[i] = file[i]
      /\ \A i \in 1..n : file'[i].parses => file'[i] = file[i]
      /\ ~term' => n > synced
  <2>1. CASE file' = g /\ term' = (n = Len(file) => term)
    <3>1. term' \in BOOLEAN /\ (~term' => n = Len(file) /\ ~term)
      BY <2>1, Zenon
    <3>2. QED
      BY <1>2, <2>1, <3>1 DEF Shape
  <2>2. ASSUME NEW p \in BOOLEAN, n > synced, term' = FALSE, p => file[n].parses,
               file' = [g EXCEPT ![n].parses = p]
        PROVE  /\ Len(file') = n
               /\ \A i \in 1..n : i # n \/ term' => file'[i] = file[i]
               /\ \A i \in 1..n : file'[i].parses => file'[i] = file[i]
               /\ ~term' => n > synced
    <3> DEFINE e == [g[n] EXCEPT !.parses = p]
    <3>1. n \in 1..Len(g)
      BY <1>2, <1>3, <2>2
    <3>2. g[n] \in Line
      BY <1>2, <3>1
    <3>3. e \in Line /\ file' = [g EXCEPT ![n] = e] /\ (e.parses => e = g[n])
      <4>1. e \in Line /\ file' = [g EXCEPT ![n] = e] /\ e.parses = p
        BY <2>2, <3>2 DEF Line
      <4>2. g[n] = file[n] /\ (p => g[n].parses)
        BY <1>2, <2>2, <3>1
      <4>3. e.ch = g[n].ch /\ e.amt = g[n].amt
        BY <3>2 DEF Line
      <4>4. p => e.parses = g[n].parses
        BY <3>2, <4>1, <4>2 DEF Line
      <4> HIDE DEF e
      <4>5. QED
        BY <3>2, <4>1, <4>3, <4>4 DEF Line
    <3> HIDE DEF e
    <3>4. Len(file') = Len(g) /\ \A j \in 1..Len(g) : file'[j] = IF j = n THEN e ELSE g[j]
      BY <1>2, <3>1, <3>3, ExceptSeq
    <3>5. \A i \in 1..n : file'[i] = IF i = n THEN e ELSE file[i]
      BY <1>2, <3>4
    <3>6. e.parses => e = file[n]
      BY <1>2, <3>1, <3>3
    <3>7. QED
      BY <1>2, <2>2, <3>4, <3>5, <3>6
  <2>3. QED
    BY <1>1, <2>1, <2>2 DEF g
<1>5. n = Len(file) /\ ~term => term' = FALSE
  BY <1>1, Zenon
<1>6. QED
  BY <1>4, <1>5

----------------------------------------------------------------------------
(* What is fsynced *)

\* A line that can be read and is known to be on the medium stays what it is.
SyncedStay == \A i \in 1..synced : file[i].parses => i <= Len(file') /\ file'[i] = file[i]

\* No step touches such a line.
LEMMA SyncedStep == TypeInv /\ [Next]_vars => SyncedStay
<1> SUFFICES ASSUME TypeInv, [Next]_vars PROVE SyncedStay
  OBVIOUS
<1> USE DEF TypeInv, TypeOK
<1>1. CASE OpenQuarantine
  <2>1. /\ file' = SubSeq(file, 1, Len(file) - 1)
        /\ Len(file) > 0 /\ ~file[Len(file)].parses
    BY <1>1 DEF OpenQuarantine, TornTail
  <2>2. Len(file) - 1 \in 0..Len(file)
    BY <2>1
  <2>3. Len(file') = Len(file) - 1 /\ \A i \in 1..Len(file) - 1 : file'[i] = file[i]
    BY <2>1, <2>2, PrefixType
  <2>4. QED
    BY <2>1, <2>3 DEF SyncedStay
<1>2. CASE WriteSync
  <2>1. PICK q \in Later(write.at) :
          file' = IF term THEN Append(file, LineAt(q)) ELSE [file EXCEPT ![Len(file)] = LineAt(q)]
    BY <1>2 DEF WriteSync
  <2>2. LineAt(q) \in Line
    BY DEF Later, LineAt, Position, Line, Record
  <2>3. CASE term
    BY <2>1, <2>2, <2>3, AppendProperties DEF SyncedStay
  <2>4. CASE ~term
    <3>1. Len(file) \in 1..Len(file) /\ synced < Len(file)
      BY <2>4 DEF Shape
    <3>2. Len(file') = Len(file) /\ \A i \in 1..Len(file) : i # Len(file) => file'[i] = file[i]
      BY <2>1, <2>2, <2>4, <3>1, ExceptSeq
    <3>3. QED
      BY <3>1, <3>2 DEF SyncedStay
  <2>5. QED
    BY <2>3, <2>4
<1>3. CASE PowerLoss
  <2>1. PICK n \in synced..Len(file) :
          /\ Len(file') = n
          /\ \A i \in 1..n : i # n \/ term' => file'[i] = file[i]
          /\ ~term' => n > synced
    BY <1>3, PowerLeaves
  <2>2. n \in Nat /\ synced \in Nat /\ synced <= n
    OBVIOUS
  <2>3. ASSUME NEW i \in 1..synced PROVE i <= Len(file') /\ file'[i] = file[i]
    <3>1. i \in 1..n /\ (i # n \/ term')
      BY <2>1, <2>2
    <3>2. QED
      BY <2>1, <3>1
  <2>4. QED
    BY <2>3 DEF SyncedStay
<1>4. CASE UNCHANGED file
  BY <1>4 DEF SyncedStay
<1>5. QED
  BY <1>1, <1>2, <1>3, <1>4
  DEF Next, OpenCorrupt, OpenNewline, OpenClean, Append_, AppendReturns, AppendThrows,
      ServeHighest, Crash, vars

\* VP-R7 for every instance: whatever fails at whatever position, and whatever
\* open() repairs, no step rewrites, moves or cuts a readable line that was fsynced.
THEOREM SyncedIsFinal == Spec => SyncedNeverRewritten
<1>1. TypeInv /\ [Next]_vars => [SyncedStay]_vars
  BY SyncedStep
<1>2. QED
  BY <1>1, TypeInit, TypeStep, PTL DEF Spec, SyncedNeverRewritten, SyncedStay

----------------------------------------------------------------------------
(* Durability *)

\* The I/O errors after which append() leaves no unterminated line behind.
CleanErrors == FailPoints \cap {"part", "json"} = {}
\* Processes die, or power is lost, but not both.
OneFault == ~("crash" \in Faults /\ "power" \in Faults)

\* The leading lines no fault of this kind can take away.
Safe == IF "power" \in Faults THEN synced ELSE Len(file)
KeptIn(n, c, a) == \E i \in 1..n : Holds(file, i, c) /\ file[i].amt >= a

OnlyTailTorn == \A i \in 1..Len(file) : ~file[i].parses => i = Len(file) /\ ~term
WriteShape ==
  /\ status # "corrupt"
  /\ write.at # "idle" => status = "open" /\ write.whole
  /\ status = "open" /\ ~term => write.at \in {"part", "json"}
  /\ write.at \in {"part", "json"} => ~term
  /\ write.at \in {"part", "json", "line"} =>
       Len(file) > 0 /\ file[Len(file)] = LineAt(write.at)
RebootSynced ==
  "power" \in Faults /\ status # "open" => synced = IF term THEN Len(file) ELSE Len(file) - 1
AckedSafe == \A r \in acked : KeptIn(Safe, r.ch, r.amt)
IndexSafe == status = "open" =>
               \A c \in Channels : index[c] # None => KeptIn(Safe, c, index[c])

\* What makes AckedSurvive inductive: every acknowledged or indexed voucher is
\* in the part of the file the fault cannot reach, and a line that does not
\* parse can only be the unterminated last one.
DurInv == /\ TypeInv /\ OnlyTailTorn /\ WriteShape /\ RebootSynced
          /\ AckedSafe /\ IndexSafe /\ OpenKnowsAcked

\* Nothing is acknowledged yet.
LEMMA DurInit == Init => DurInv
  BY NoWriteType
  DEF Init, DurInv, TypeInv, TypeOK, Shape, OnlyTailTorn, WriteShape, RebootSynced,
      AckedSafe, IndexSafe, OpenKnowsAcked, NoIndex, NoWrite, Index, Line

\* Safe counts lines of the file.
LEMMA SafeRange == ASSUME TypeInv PROVE Safe \in 0..Len(file)
  BY DEF Safe, TypeInv, TypeOK

\* A line that is written is a Line.
LEMMA LineType ==
  ASSUME NEW f \in Seq(Line), NEW i \in 1..Len(f)
  PROVE  f[i] \in Line /\ f[i].amt \in Nat /\ f[i].ch \in Channels /\ f[i].parses \in BOOLEAN
<1>1. f[i] \in Line
  OBVIOUS
<1>2. QED
  BY <1>1 DEF Line

\* open() serves a file all of whose lines are safe: what the index holds is
\* kept, and nothing acknowledged is above it.
LEMMA ServeSafe ==
  ASSUME TypeInv', NEW f, f = file', Serve(f), Safe' = Len(file'),
         AckedSafe'
  PROVE  IndexSafe' /\ OpenKnowsAcked'
<1>1. PICK idx \in Index : IsReplayOf(idx, file') /\ index' = idx
  BY DEF Serve
<1>2. ASSUME NEW c \in Channels, index'[c] # None PROVE KeptIn(Safe, c, index[c])'
  <2>1. PICK i \in 1..Len(file') : Holds(file', i, c) /\ file'[i].amt = index'[c]
    BY <1>1, <1>2 DEF IsReplayOf
  <2>2. file'[i].amt \in Nat
    BY LineType DEF TypeInv, TypeOK
  <2>3. QED
    BY <2>1, <2>2 DEF KeptIn, Holds
<1>3. ASSUME NEW r \in acked' PROVE index'[r.ch] >= r.amt
  <2>1. r.ch \in Channels /\ r.amt \in Nat
    BY DEF TypeInv, TypeOK, Record
  <2>2. PICK i \in 1..Len(file') : Holds(file', i, r.ch) /\ file'[i].amt >= r.amt
    BY DEF AckedSafe, KeptIn, Holds
  <2>3. index'[r.ch] >= file'[i].amt /\ index'[r.ch] \in Int /\ file'[i].amt \in Nat
    <3>1. file'[i].amt \in Nat
      BY LineType DEF TypeInv, TypeOK
    <3>2. index'[r.ch] \in Int
      BY <1>1, <2>1, LevelInt
    <3>3. index'[r.ch] >= file'[i].amt
      BY <1>1, <2>1, <2>2, <3>1, <3>2 DEF IsReplayOf
    <3>4. QED
      BY <3>1, <3>2, <3>3
  <2>4. QED
    BY <2>1, <2>2, <2>3
<1>4. QED
  BY <1>2, <1>3 DEF IndexSafe, OpenKnowsAcked

\* A step that keeps every readable line of the safe part keeps every voucher in it.
LEMMA KeptCarries ==
  ASSUME TypeInv, TypeInv', Safe <= Safe',
         \A i \in 1..Safe : file[i].parses => i <= Safe' /\ file'[i] = file[i],
         NEW c, NEW a, KeptIn(Safe, c, a)
  PROVE  KeptIn(Safe, c, a)'
  BY SafeRange DEF KeptIn, Holds

\* open(), with either repair, keeps what was acknowledged.
LEMMA DurOpen ==
  ASSUME DurInv, TypeInv', CleanErrors, OneFault,
         OpenCorrupt \/ OpenQuarantine \/ OpenNewline \/ OpenClean
  PROVE  DurInv'
<1> USE DEF DurInv
<1>1. CASE OpenCorrupt
  BY <1>1 DEF OpenCorrupt, CorruptMiddle, OnlyTailTorn, TypeInv, TypeOK
<1>2. CASE OpenQuarantine
  <2>1. /\ file' = SubSeq(file, 1, Len(file) - 1) /\ term' = TRUE
        /\ status # "open" /\ Serve(file') /\ acked' = acked /\ write' = write
        /\ synced' = IF synced < Len(file) THEN synced ELSE Len(file) - 1
        /\ Len(file) > 0 /\ ~file[Len(file)].parses
    BY <1>2 DEF OpenQuarantine, TornTail
  <2>2. Len(file) - 1 \in 0..Len(file) /\ ~term
    BY <2>1 DEF OnlyTailTorn, TypeInv, TypeOK
  <2>3. Len(file') = Len(file) - 1 /\ \A i \in 1..Len(file) - 1 : file'[i] = file[i]
    BY <2>1, <2>2, PrefixType DEF TypeInv, TypeOK
  <2>4. synced' = synced /\ Safe' = Len(file') /\ Safe <= Len(file)
    BY <2>1, <2>2, <2>3 DEF Safe, RebootSynced, Shape, TypeInv, TypeOK
  <2>5. \A i \in 1..Safe : file[i].parses => i <= Safe' /\ file'[i] = file[i]
    BY <2>1, <2>3, <2>4, SafeRange
  <2>6. AckedSafe'
    <3>1. ASSUME NEW r \in acked PROVE KeptIn(Safe, r.ch, r.amt)'
      BY <2>3, <2>4, <2>5, SafeRange DEF AckedSafe, KeptIn, Holds
    <3>2. QED
      BY <2>1, <3>1 DEF AckedSafe
  <2>7. IndexSafe' /\ OpenKnowsAcked'
    BY <2>1, <2>4, <2>6, ServeSafe
  <2>8. OnlyTailTorn' /\ WriteShape' /\ RebootSynced'
    BY <2>1, <2>3 DEF OnlyTailTorn, WriteShape, RebootSynced, Serve, TypeInv, TypeOK
  <2>9. QED
    BY <2>6, <2>7, <2>8
<1>3. CASE OpenNewline \/ OpenClean
  <2>1. /\ file' = file /\ term' = TRUE /\ Serve(file') /\ status # "open"
        /\ acked' = acked /\ write' = write /\ ~TornTail(file)
        /\ synced' = Len(file) \/ (synced' = synced /\ term)
    BY <1>3 DEF OpenNewline, OpenClean
  <2>2. Safe' = Len(file') /\ Safe <= Safe'
    BY <2>1 DEF Safe, RebootSynced, TypeInv, TypeOK
  <2>3. AckedSafe'
    BY <2>1, <2>2, KeptCarries, SafeRange DEF AckedSafe
  <2>4. IndexSafe' /\ OpenKnowsAcked'
    BY <2>1, <2>2, <2>3, ServeSafe
  <2>5. OnlyTailTorn' /\ WriteShape' /\ RebootSynced'
    BY <2>1 DEF OnlyTailTorn, WriteShape, RebootSynced, Serve, TornTail, TypeInv, TypeOK
  <2>6. QED
    BY <2>3, <2>4, <2>5
<1>4. QED
  BY <1>1, <1>2, <1>3

\* Beginning or giving up an append(), serving the index and a crash leave every
\* safe line where it is.
LEMMA DurAppend ==
  ASSUME DurInv, TypeInv', CleanErrors, OneFault,
         \/ \E r \in Record : Append_(r)
         \/ AppendThrows
         \/ \E c \in Channels : ServeHighest(c)
         \/ Crash
  PROVE  DurInv'
<1> USE DEF DurInv
<1>1. CASE \E r \in Record : Append_(r)
  <2>1. /\ file' = file /\ term' = term /\ synced' = synced /\ status' = status
        /\ index' = index /\ acked' = acked /\ status = "open" /\ write.at = "idle"
        /\ write'.at = "begun" /\ write'.whole = term
    BY <1>1 DEF Append_
  <2>2. QED
    BY <2>1 DEF OnlyTailTorn, WriteShape, RebootSynced, AckedSafe, IndexSafe,
                OpenKnowsAcked, KeptIn, Holds, Safe, TypeInv, TypeOK
<1>2. CASE AppendThrows \/ Crash
  <2>1. /\ file' = file /\ term' = term /\ synced' = synced /\ acked' = acked
        /\ write'.at = "idle" /\ Safe' = Safe
        /\ \/ status' = status /\ index' = index /\ write.at \in {"begun", "line"}
           \/ status' = "down" /\ "power" \notin Faults
    <3>1. CASE AppendThrows
      <4>1. write.at \in {"begun", "line"}
        BY <3>1 DEF AppendThrows, CleanErrors
      <4>2. QED
        BY <3>1, <4>1 DEF AppendThrows, NoWrite, Safe
    <3>2. CASE Crash
      BY <3>2 DEF Crash, NoWrite, Safe, OneFault
    <3>3. QED
      BY <1>2, <3>1, <3>2
  <2>2. OnlyTailTorn' /\ WriteShape' /\ RebootSynced'
    BY <2>1 DEF OnlyTailTorn, WriteShape, RebootSynced, Shape, TypeInv, TypeOK
  <2>3. AckedSafe' /\ IndexSafe' /\ OpenKnowsAcked'
    BY <2>1 DEF AckedSafe, IndexSafe, OpenKnowsAcked, KeptIn, Holds
  <2>4. QED
    BY <2>2, <2>3
<1>3. ASSUME NEW c \in Channels, ServeHighest(c) PROVE DurInv'
  <2>1. /\ file' = file /\ term' = term /\ synced' = synced /\ status' = status
        /\ index' = index /\ write' = write /\ Safe' = Safe
        /\ acked' = acked \cup {[ch |-> c, amt |-> index[c]]}
        /\ status = "open" /\ index[c] # None
    BY <1>3 DEF ServeHighest, Safe
  <2>2. KeptIn(Safe, c, index[c])
    BY <2>1 DEF IndexSafe
  <2>3. AckedSafe' /\ IndexSafe'
    BY <2>1, <2>2 DEF AckedSafe, IndexSafe, KeptIn, Holds
  <2>4. OpenKnowsAcked'
    <3>1. index[c] \in Int
      BY LevelInt DEF TypeInv, TypeOK
    <3>2. QED
      BY <2>1, <3>1 DEF OpenKnowsAcked
  <2>5. OnlyTailTorn' /\ WriteShape' /\ RebootSynced'
    BY <2>1 DEF OnlyTailTorn, WriteShape, RebootSynced, LineAt
  <2>6. QED
    BY <2>3, <2>4, <2>5
<1>4. QED
  BY <1>1, <1>2, <1>3

\* A writeSync() touches only the line after the safe ones.
LEMMA DurWrite ==
  ASSUME DurInv, TypeInv', WriteSync
  PROVE  DurInv'
<1> USE DEF DurInv
<1>1. PICK q \in Later(write.at) :
        /\ file' = IF term THEN Append(file, LineAt(q))
                           ELSE [file EXCEPT ![Len(file)] = LineAt(q)]
        /\ term' = (q = "line")
        /\ write' = [write EXCEPT !.at = q]
        /\ UNCHANGED <<synced, status, index, acked>>
  BY DEF WriteSync
<1>2. /\ status = "open" /\ write.whole /\ write.at \in {"begun", "part", "json"}
      /\ q \in {"part", "json", "line"} /\ (q = "part" => write.at = "begun")
  BY DEF WriteSync, WriteShape, Later
<1>3. /\ LineAt(q) \in Line /\ LineAt(q)' = LineAt(q)
      /\ LineAt(q).parses = (q # "part")
  BY <1>1, <1>2 DEF LineAt, Line, TypeInv, TypeOK, Record
<1>4. write'.at = q /\ write'.whole
  BY <1>1, <1>2 DEF TypeInv, TypeOK
<1>5. /\ Len(file') > 0 /\ file'[Len(file')] = LineAt(q)
      /\ Len(file') = IF term THEN Len(file) + 1 ELSE Len(file)
      /\ \A i \in 1..Len(file') - 1 : i <= Len(file) /\ file'[i] = file[i]
  <2>1. CASE term
    BY <1>1, <1>3, <2>1, AppendProperties DEF TypeInv, TypeOK
  <2>2. CASE ~term
    <3>1. Len(file) \in 1..Len(file)
      BY <2>2 DEF TypeInv, TypeOK, Shape
    <3>2. QED
      BY <1>1, <1>3, <2>2, <3>1, ExceptSeq DEF TypeInv, TypeOK
  <2>3. QED
    BY <2>1, <2>2
\* The line being finished is the only one that changes, and if it could be read
\* before it reads the same now.
<1>6. ~term /\ file[Len(file)].parses => file'[Len(file)] = file[Len(file)]
  <2>1. CASE ~term /\ file[Len(file)].parses
    <3>1. write.at \in {"part", "json"} /\ file[Len(file)] = LineAt(write.at)
      BY <1>2, <2>1 DEF WriteShape
    <3>2. write.at = "json"
      <4>1. ~LineAt("part").parses
        BY DEF LineAt
      <4>2. QED
        BY <2>1, <3>1, <4>1
    <3>3. LineAt(q) = LineAt("json")
      BY <1>2, <3>2 DEF LineAt, Later
    <3>4. QED
      BY <1>5, <2>1, <3>1, <3>2, <3>3
  <2>2. QED
    BY <2>1
<1>7. /\ Safe <= Safe'
      /\ \A i \in 1..Safe : file[i].parses => i <= Safe' /\ file'[i] = file[i]
  BY <1>1, <1>5, <1>6 DEF Safe, TypeInv, TypeOK, Shape
<1>8. OnlyTailTorn'
  <2>1. ASSUME NEW i \in 1..Len(file'), ~file'[i].parses PROVE i = Len(file') /\ ~term'
    <3>1. CASE i = Len(file')
      <4>1. q = "part"
        BY <1>3, <1>5, <2>1, <3>1
      <4>2. QED
        BY <1>1, <3>1, <4>1
    <3>2. CASE i # Len(file')
      <4>1. i \in 1..Len(file) /\ ~file[i].parses /\ i < Len(file')
        BY <1>5, <2>1, <3>2 DEF TypeInv, TypeOK
      <4>2. i = Len(file) /\ ~term
        BY <4>1 DEF OnlyTailTorn
      <4>3. QED
        BY <1>5, <4>1, <4>2
    <3>3. QED
      BY <3>1, <3>2
  <2>2. QED
    BY <2>1 DEF OnlyTailTorn
<1>9. WriteShape'
  <2>1. q \in {"part", "json"} => ~term'
    BY <1>1
  <2>2. ~term' => q \in {"part", "json"}
    BY <1>1, <1>2
  <2>3. LineAt(write.at)' = LineAt(q)'
    BY <1>4 DEF LineAt
  <2>4. QED
    BY <1>1, <1>2, <1>3, <1>4, <1>5, <2>1, <2>2, <2>3 DEF WriteShape
<1>10. AckedSafe' /\ IndexSafe' /\ OpenKnowsAcked' /\ RebootSynced'
  <2>1. AckedSafe'
    BY <1>1, <1>7, KeptCarries DEF AckedSafe
  <2>2. IndexSafe'
    BY <1>1, <1>2, <1>7, KeptCarries DEF IndexSafe
  <2>3. QED
    BY <1>1, <1>2, <2>1, <2>2 DEF OpenKnowsAcked, RebootSynced
<1>11. QED
  BY <1>8, <1>9, <1>10

\* When fsyncSync() has returned the new line is safe, and may be acknowledged.
LEMMA DurReturns ==
  ASSUME DurInv, TypeInv', AppendReturns
  PROVE  DurInv'
<1> USE DEF DurInv
<1> DEFINE r == write.rec
<1>1. /\ file' = file /\ term' = term /\ status' = "open" /\ status = "open"
      /\ synced' = Len(file) /\ acked' = acked \cup {r} /\ write'.at = "idle"
      /\ index' = IF index[r.ch] >= r.amt THEN index ELSE [index EXCEPT ![r.ch] = r.amt]
  BY DEF AppendReturns, NoWrite
<1>2. r \in Record /\ r.ch \in Channels /\ r.amt \in Nat
  BY DEF TypeInv, TypeOK, Record
<1>3. Safe' = Len(file) /\ Safe <= Safe'
  BY <1>1, SafeRange DEF Safe
<1>4. \E i \in 1..Safe' : Holds(file', i, r.ch) /\ file'[i].amt >= r.amt
  <2>1. /\ Len(file) > 0 /\ write.whole
        /\ file[Len(file)] = LineAt("line")
    BY DEF AppendReturns, WriteShape
  <2>2. Len(file) \in 1..Safe' /\ Holds(file', Len(file), r.ch) /\ file'[Len(file)].amt = r.amt
    BY <1>1, <1>3, <2>1 DEF LineAt, Holds, TypeInv, TypeOK
  <2>3. QED
    BY <1>1, <1>2, <2>2 DEF KeptIn
<1>5. ASSUME NEW c, NEW a, KeptIn(Safe, c, a) PROVE KeptIn(Safe, c, a)'
  BY <1>1, <1>3, <1>5, SafeRange DEF KeptIn, Holds
<1>6. AckedSafe'
  <2>1. ASSUME NEW s \in acked' PROVE KeptIn(Safe, s.ch, s.amt)'
    <3>1. CASE s = r
      BY <1>4, <3>1 DEF KeptIn, Holds
    <3>2. CASE s \in acked
      BY <1>5, <3>2 DEF AckedSafe
    <3>3. QED
      BY <1>1, <3>1, <3>2
  <2>2. QED
    BY <2>1 DEF AckedSafe
<1>7. IndexSafe'
  <2>1. ASSUME NEW c \in Channels, index'[c] # None PROVE KeptIn(Safe, c, index[c])'
    <3>1. CASE index'[c] = index[c]
      BY <1>1, <1>5, <2>1, <3>1 DEF IndexSafe
    <3>2. CASE index'[c] # index[c]
      <4>1. c = r.ch /\ index'[c] = r.amt
        BY <1>1, <1>2, <3>2 DEF TypeInv, TypeOK, Index
      <4>2. QED
        BY <1>4, <4>1 DEF KeptIn, Holds
    <3>3. QED
      BY <3>1, <3>2
  <2>2. QED
    BY <2>1 DEF IndexSafe
<1>8. OpenKnowsAcked'
  <2>1. ASSUME NEW s \in acked' PROVE index'[s.ch] >= s.amt
    <3>1. s.ch \in Channels /\ s.amt \in Nat
      BY DEF TypeInv, TypeOK, Record
    <3>2. index[s.ch] \in Int /\ index[r.ch] \in Int
      BY <1>2, <3>1, LevelInt DEF TypeInv, TypeOK
    <3>3. index'[s.ch] >= index[s.ch] /\ index'[r.ch] >= r.amt
      BY <1>1, <1>2, <3>1, <3>2 DEF TypeInv, TypeOK, Index
    <3>4. CASE s = r
      BY <3>3, <3>4
    <3>5. CASE s \in acked
      <4>1. index[s.ch] >= s.amt
        BY <1>1, <3>5 DEF OpenKnowsAcked
      <4>2. index'[s.ch] \in Int
        BY <3>1, LevelInt DEF TypeInv, TypeOK
      <4>3. QED
        BY <3>1, <3>2, <3>3, <4>1, <4>2
    <3>6. QED
      BY <1>1, <3>4, <3>5
  <2>2. QED
    BY <2>1 DEF OpenKnowsAcked
<1>9. OnlyTailTorn' /\ WriteShape' /\ RebootSynced'
  BY <1>1 DEF OnlyTailTorn, WriteShape, RebootSynced, AppendReturns
<1>10. QED
  BY <1>6, <1>7, <1>8, <1>9

\* Power loss takes only lines that are not safe.
LEMMA DurPower ==
  ASSUME DurInv, TypeInv', OneFault, PowerLoss
  PROVE  DurInv'
<1> USE DEF DurInv
<1>1. /\ Safe = synced /\ Safe' = synced' /\ "power" \in Faults
      /\ status' = "down" /\ write'.at = "idle" /\ acked' = acked
      /\ synced' = IF term' THEN Len(file') ELSE Len(file') - 1
  BY DEF PowerLoss, Safe, NoWrite
<1>2. PICK n \in synced..Len(file) :
        /\ Len(file') = n
        /\ \A i \in 1..n : i # n \/ term' => file'[i] = file[i]
        /\ ~term' => n > synced
        /\ n = Len(file) /\ ~term => term' = FALSE
  BY PowerLeaves
<1>3. n \in Nat /\ n <= Len(file) /\ synced \in 0..n
  BY DEF TypeInv, TypeOK
<1>4. \A i \in 1..Safe : file[i].parses => i <= Safe' /\ file'[i] = file[i]
  <2>1. Safe <= Safe'
    BY <1>1, <1>2, <1>3
  <2>2. \A i \in 1..Safe : i <= n /\ (i # n \/ term')
    BY <1>1, <1>2, <1>3
  <2>3. QED
    BY <1>1, <1>2, <1>3, <2>1, <2>2
<1>5. AckedSafe'
  BY <1>1, <1>2, <1>3, <1>4, KeptCarries DEF AckedSafe
<1>6. OnlyTailTorn'
  <2>1. ASSUME NEW i \in 1..n, ~file'[i].parses PROVE i = n /\ ~term'
    <3>1. CASE i # n \/ term'
      <4>1. ~file[i].parses /\ i \in 1..Len(file)
        BY <1>2, <1>3, <2>1, <3>1
      <4>2. i = Len(file) /\ ~term
        BY <4>1 DEF OnlyTailTorn
      <4>3. i = n /\ n = Len(file)
        BY <1>3, <4>2
      <4>4. term' = FALSE
        BY <1>2, <3>1, <4>2, <4>3, Zenon
      <4>5. QED
        BY <3>1, <4>3, <4>4
    <3>2. QED
      BY <3>1
  <2>2. QED
    BY <1>2, <2>1 DEF OnlyTailTorn
<1>7. WriteShape' /\ RebootSynced' /\ IndexSafe' /\ OpenKnowsAcked'
  BY <1>1 DEF WriteShape, RebootSynced, IndexSafe, OpenKnowsAcked
<1>8. QED
  BY <1>5, <1>6, <1>7

\* The durability invariant is inductive.
LEMMA DurStep ==
  ASSUME CleanErrors, OneFault
  PROVE  DurInv /\ [Next]_vars => DurInv'
<1> SUFFICES ASSUME DurInv, [Next]_vars PROVE DurInv'
  OBVIOUS
<1>1. TypeInv'
  BY TypeStep DEF DurInv
<1>2. CASE OpenCorrupt \/ OpenQuarantine \/ OpenNewline \/ OpenClean
  BY <1>1, <1>2, DurOpen
<1>3. CASE \/ \E r \in Record : Append_(r)
           \/ AppendThrows
           \/ \E c \in Channels : ServeHighest(c)
           \/ Crash
  BY <1>1, <1>3, DurAppend
<1>4. CASE WriteSync
  BY <1>1, <1>4, DurWrite
<1>5. CASE AppendReturns
  BY <1>1, <1>5, DurReturns
<1>6. CASE PowerLoss
  BY <1>1, <1>6, DurPower
<1>7. CASE UNCHANGED vars
  BY <1>1, <1>7 DEF vars, DurInv, OnlyTailTorn, WriteShape, RebootSynced, AckedSafe,
                    IndexSafe, OpenKnowsAcked, KeptIn, Holds, Safe, LineAt
<1>8. QED
  BY <1>2, <1>3, <1>4, <1>5, <1>6, <1>7 DEF Next

\* It implies the two properties the runs check.
LEMMA DurImplies == DurInv => AckedSurvive /\ OpenKnowsAcked
<1> SUFFICES ASSUME DurInv PROVE AckedSurvive /\ OpenKnowsAcked
  OBVIOUS
<1>1. ~CorruptMiddle(file)
  BY DEF DurInv, TypeInv, TypeOK, OnlyTailTorn, CorruptMiddle
<1>2. \A r \in acked : Kept(r)
  BY SafeRange DEF DurInv, AckedSafe, KeptIn, Kept, TypeInv, TypeOK
<1>3. QED
  BY <1>1, <1>2 DEF DurInv, AckedSurvive

\* VP-R3 for every instance: with write errors that leave no partial line and one
\* kind of fault, no acknowledged voucher is ever lost.
THEOREM AckedDurable == ASSUME CleanErrors, OneFault PROVE Spec => []AckedSurvive
BY DurInit, DurStep, DurImplies, PTL DEF Spec

\* A reopened owner always knows at least what it acknowledged.
THEOREM ReopenKnows == ASSUME CleanErrors, OneFault PROVE Spec => []OpenKnowsAcked
BY DurInit, DurStep, DurImplies, PTL DEF Spec

----------------------------------------------------------------------------
(* Highest vouchers *)

\* b is at least every amount in S.
Bounds(b, S) == \A a \in S : a <= b

\* A nonempty set of natural numbers has a smallest one.
LEMMA SmallestOf ==
  ASSUME NEW T, T \subseteq Nat, T # {}
  PROVE  \E m \in T : \A k \in T : m <= k
<1>1. PICK m \in T : \A k \in T : ~(<<k, m>> \in OpToRel(<, Nat))
  BY NatLessThanWellFounded, WFMin
<1>2. ASSUME NEW k \in T PROVE m <= k
  <2>1. k \in Nat /\ m \in Nat
    OBVIOUS
  <2>2. ~(k < m)
    BY <1>1, <2>1 DEF OpToRel
  <2>3. QED
    BY <2>1, <2>2
<1>3. QED
  BY <1>2

\* Of a bounded set Highest is its maximum, and None of the empty one.
LEMMA HighestIs ==
  ASSUME NEW S, S \subseteq Nat, NEW b \in Nat, Bounds(b, S)
  PROVE  /\ S = {} => Highest(S) = None
         /\ S # {} => Highest(S) \in S
         /\ Highest(S) \in Int /\ None <= Highest(S) /\ Bounds(Highest(S), S)
<1>1. CASE S = {}
  BY <1>1 DEF Highest, None, Bounds
<1>2. CASE S # {}
  <2> DEFINE T == {u \in Nat : Bounds(u, S)}
  <2>1. T \subseteq Nat /\ T # {}
    OBVIOUS
  <2> HIDE DEF T
  <2>2. PICK m \in T : \A k \in T : m <= k
    BY <2>1, SmallestOf
  <2>3. m \in Nat /\ Bounds(m, S)
    BY <2>2 DEF T
  <2>4. m \in S
    <3>1. SUFFICES ASSUME m \notin S PROVE FALSE
      OBVIOUS
    <3>2. \A a \in S : a \in Nat /\ a < m
      BY <2>3, <3>1 DEF Bounds
    <3>3. m - 1 \in Nat /\ \A a \in S : a <= m - 1
      <4>1. PICK a \in S : a \in Nat /\ a < m
        BY <1>2, <3>2
      <4>2. m \in Nat /\ m - 1 \in Nat
        BY <2>3, <4>1
      <4>3. QED
        BY <3>2, <4>2
    <3>4. m - 1 \in T
      BY <3>3 DEF T, Bounds
    <3>5. QED
      BY <2>2, <2>3, <3>4
  <2>5. \E a \in S : \A c \in S : c <= a
    BY <2>3, <2>4 DEF Bounds
  <2>6. Highest(S) \in S /\ \A c \in S : c <= Highest(S)
    BY <1>2, <2>5 DEF Highest
  <2>7. Highest(S) \in Nat
    BY <2>6
  <2>8. QED
    BY <1>2, <2>6, <2>7 DEF None, Bounds
<1>3. QED
  BY <1>1, <1>2

\* A set below another has no higher maximum.
LEMMA HighestBelow ==
  ASSUME NEW S, S \subseteq Nat, NEW T, T \subseteq Nat, NEW b \in Nat, Bounds(b, T),
         \A a \in S : \E c \in T : a <= c
  PROVE  Highest(S) <= Highest(T) /\ Bounds(b, S)
<1>1. Bounds(b, S)
  BY DEF Bounds
<1>2. CASE S = {}
  BY <1>1, <1>2, HighestIs
<1>3. CASE S # {}
  <2>1. Highest(S) \in S
    BY <1>1, <1>3, HighestIs
  <2>2. PICK c \in T : Highest(S) <= c
    BY <2>1
  <2>3. c <= Highest(T) /\ Highest(T) \in Int
    BY HighestIs DEF Bounds
  <2>4. Highest(S) \in Nat /\ c \in Nat
    BY <2>1
  <2>5. QED
    BY <1>1, <2>2, <2>3, <2>4
<1>4. QED
  BY <1>2, <1>3

\* One more amount is the maximum, or the maximum stays.
LEMMA HighestAdds ==
  ASSUME NEW S, S \subseteq Nat, NEW b \in Nat, Bounds(b, S), NEW a \in Nat
  PROVE  /\ Highest(S \cup {a}) = IF a > Highest(S) THEN a ELSE Highest(S)
         /\ \E u \in Nat : Bounds(u, S \cup {a})
<1> DEFINE T == S \cup {a}
<1>1. T \subseteq Nat /\ T # {} /\ S \subseteq T /\ a \in T
  OBVIOUS
<1>2. \E u \in Nat : Bounds(u, T)
  <2>1. CASE a <= b
    BY <2>1 DEF Bounds
  <2>2. CASE a > b
    BY <2>2 DEF Bounds
  <2>3. QED
    BY <2>1, <2>2
<1>3. \A c \in T : c \in S \/ c = a
  OBVIOUS
<1> HIDE DEF T
<1>4. Highest(T) \in T /\ Bounds(Highest(T), T)
  BY <1>1, <1>2, HighestIs
<1>5. Highest(T) \in Int /\ a <= Highest(T) /\ Bounds(Highest(T), S)
  <2>1. Highest(T) \in Nat
    BY <1>1, <1>4
  <2>2. QED
    BY <1>1, <1>4, <2>1 DEF Bounds
<1>6. Highest(S) \in Int /\ Bounds(Highest(S), S) /\ (Highest(S) # None => Highest(S) \in S)
      /\ None <= Highest(S)
  BY HighestIs
<1>7. Highest(T) = IF a > Highest(S) THEN a ELSE Highest(S)
  <2>1. Highest(S) <= Highest(T)
    BY <1>5, <1>6 DEF Bounds, None
  <2>2. Highest(T) = a \/ Highest(T) <= Highest(S)
    BY <1>3, <1>4, <1>6 DEF Bounds
  <2>3. QED
    BY <1>5, <1>6, <2>1, <2>2
<1>8. QED
  BY <1>2, <1>7 DEF T

\* The amounts of a file are bounded.
LEMMA AmountsBounded ==
  ASSUME NEW f \in Seq(Line)
  PROVE  \E b \in Nat : \A i \in 1..Len(f) : f[i].amt <= b
<1> DEFINE Upto(n) == {b \in Nat : \A i \in 1..n : f[i].amt <= b}
           T == {n \in 0..Len(f) : Upto(n) = {}}
<1>1. Len(f) \in Nat
  OBVIOUS
<1>2. ASSUME NEW m \in T, \A k \in T : m <= k PROVE FALSE
  <2>1. m \in Nat /\ m <= Len(f) /\ Upto(m) = {}
    BY <1>1
  <2>2. m # 0
    <3>1. 0 \in Upto(0)
      OBVIOUS
    <3>2. QED
      BY <2>1, <3>1
  <2>3. m - 1 \in 0..Len(f) /\ m - 1 \notin T
    <3>1. m - 1 \in 0..Len(f) /\ ~(m <= m - 1)
      BY <1>1, <2>1, <2>2
    <3> HIDE DEF T
    <3>2. QED
      BY <1>2, <3>1
  <2>4. PICK b \in Nat : \A i \in 1..m - 1 : f[i].amt <= b
    BY <2>3
  <2>5. f[m].amt \in Nat
    BY <1>1, <2>1, <2>2, LineType
  <2>6. PICK u \in Nat : b <= u /\ f[m].amt <= u
    <3>1. CASE b <= f[m].amt
      BY <2>5, <3>1
    <3>2. CASE f[m].amt <= b
      BY <3>2
    <3>3. QED
      BY <2>5, <3>1, <3>2
  <2>7. ASSUME NEW i \in 1..m PROVE f[i].amt <= u
    <3>1. CASE i = m
      BY <2>6, <3>1
    <3>2. CASE i # m
      <4>1. i \in 1..m - 1
        BY <2>1, <3>2
      <4>2. f[i].amt <= b /\ f[i].amt \in Nat
        BY <1>1, <2>1, <2>4, <4>1, LineType
      <4>3. QED
        BY <2>6, <4>2
    <3>3. QED
      BY <3>1, <3>2
  <2>8. u \in Upto(m)
    BY <2>7
  <2>9. QED
    BY <2>1, <2>8
<1>3. T = {}
  <2>1. T \subseteq Nat
    BY <1>1
  <2> HIDE DEF T
  <2>2. QED
    BY <1>2, <2>1, SmallestOf
<1>4. Upto(Len(f)) # {}
  BY <1>1, <1>3
<1>5. QED
  BY <1>4

----------------------------------------------------------------------------
(* The register *)

\* The amounts a replay of f reads for channel c, and those acknowledged of it.
ReadIn(f, c) == {f[i].amt : i \in {j \in 1..Len(f) : Holds(f, j, c)}}
ToldIn(k, c) == {r.amt : r \in {q \in k : q.ch = c}}

\* x was read for c: some line that holds c has it.
LEMMA InRead ==
  ASSUME NEW f, NEW c, NEW x
  PROVE  x \in ReadIn(f, c) <=> \E i \in 1..Len(f) : Holds(f, i, c) /\ f[i].amt = x
BY DEF ReadIn

\* Where every acknowledged voucher is kept, what is promised is stored.
LEMMA PromisedIsStored ==
  ASSUME NEW f \in Seq(Line), NEW k \in SUBSET Record, NEW c \in Channels,
         \A r \in k : \E i \in 1..Len(f) : Holds(f, i, r.ch) /\ f[i].amt >= r.amt
  PROVE  /\ ReadIn(f, c) \subseteq Amounts /\ ToldIn(k, c) \subseteq Amounts
         /\ \E b \in Nat : Bounds(b, ReadIn(f, c)) /\ Bounds(b, ToldIn(k, c))
         /\ Highest(ReadIn(f, c)) \in Amounts \cup {None}
         /\ Highest(ToldIn(k, c)) <= Highest(ReadIn(f, c))
<1> DEFINE S == ToldIn(k, c)
           T == ReadIn(f, c)
<1>1. S \subseteq Amounts
  BY DEF ToldIn, Record
<1>2. T \subseteq Amounts
  <2>1. \A i \in 1..Len(f) : f[i].amt \in Amounts
    <3>1. \A i \in 1..Len(f) : f[i] \in Line
      OBVIOUS
    <3>2. QED
      BY <3>1 DEF Line
  <2>2. QED
    BY <2>1 DEF ReadIn
<1>3. PICK b \in Nat : Bounds(b, T)
  BY AmountsBounded DEF Bounds, ReadIn
<1>4. \A a \in S : \E x \in T : a <= x
  <2>1. ASSUME NEW a \in S PROVE \E x \in T : a <= x
    <3>1. PICK r \in k : r.ch = c /\ r.amt = a
      BY DEF ToldIn
    <3>2. PICK i \in 1..Len(f) : Holds(f, i, c) /\ f[i].amt >= a
      BY <3>1
    <3>3. f[i].amt \in T
      BY <3>2, InRead
    <3>4. a \in Nat /\ f[i].amt \in Nat
      BY <1>1, <1>2, <3>3
    <3>5. QED
      BY <3>2, <3>3, <3>4
  <2>2. QED
    BY <2>1
<1>5. S \subseteq Nat /\ T \subseteq Nat
  BY <1>1, <1>2
<1> HIDE DEF S, T
<1>6. Highest(S) <= Highest(T) /\ Bounds(b, S)
  BY <1>3, <1>4, <1>5, HighestBelow
<1>7. Highest(T) \in Amounts \cup {None}
  BY <1>2, <1>3, <1>5, HighestIs
<1>8. QED
  BY <1>1, <1>2, <1>3, <1>6, <1>7 DEF S, T

\* The same of the log, now and after a step.
LEMMA LevelsNow ==
  ASSUME DurInv, NEW c \in Channels
  PROVE  /\ StoredOf(c) = Highest(ReadIn(file, c)) /\ PromisedOf(c) = Highest(ToldIn(acked, c))
         /\ ReadIn(file, c) \subseteq Amounts /\ ToldIn(acked, c) \subseteq Amounts
         /\ \E b \in Nat : Bounds(b, ReadIn(file, c)) /\ Bounds(b, ToldIn(acked, c))
         /\ StoredOf(c) \in Amounts \cup {None} /\ PromisedOf(c) <= StoredOf(c)
<1>1. file \in Seq(Line) /\ acked \in SUBSET Record
  BY DEF DurInv, TypeInv, TypeOK
<1>2. \A r \in acked : \E i \in 1..Len(file) : Holds(file, i, r.ch) /\ file[i].amt >= r.amt
  BY DurImplies DEF AckedSurvive, Kept
<1>3. StoredOf(c) = Highest(ReadIn(file, c)) /\ PromisedOf(c) = Highest(ToldIn(acked, c))
  BY DEF StoredOf, PromisedOf, ReadIn, ToldIn
<1>4. QED
  BY <1>1, <1>2, <1>3, PromisedIsStored

LEMMA LevelsNext ==
  ASSUME DurInv', NEW c \in Channels
  PROVE  /\ StoredOf(c)' = Highest(ReadIn(file', c)) /\ PromisedOf(c)' = Highest(ToldIn(acked', c))
         /\ StoredOf(c)' \in Amounts \cup {None} /\ PromisedOf(c)' <= StoredOf(c)'
<1>1. DurInv' => AckedSurvive'
  BY DurImplies, PTL
<1>2. file' \in Seq(Line) /\ acked' \in SUBSET Record
  BY DEF DurInv, TypeInv, TypeOK
<1>3. \A r \in acked' : \E i \in 1..Len(file') : Holds(file', i, r.ch) /\ file'[i].amt >= r.amt
  BY <1>1 DEF AckedSurvive, Kept, Holds
<1>4. StoredOf(c)' = Highest(ReadIn(file', c)) /\ PromisedOf(c)' = Highest(ToldIn(acked', c))
  BY DEF StoredOf, PromisedOf, ReadIn, ToldIn, Holds
<1>5. QED
  BY <1>2, <1>3, <1>4, PromisedIsStored

RegisterVars == <<[c \in Channels |-> StoredOf(c)], [c \in Channels |-> PromisedOf(c)]>>

\* A step that tells nobody anything and from which no more is read loses.
LEMMA StepLoses ==
  ASSUME DurInv, DurInv', acked' = acked,
         \A c \in Channels : ReadIn(file', c) \subseteq ReadIn(file, c)
  PROVE  R!Lose
<1>1. ASSUME NEW c \in Channels PROVE StoredOf(c)' <= StoredOf(c)
  <2>1. PICK b \in Nat : Bounds(b, ReadIn(file, c))
    BY LevelsNow
  <2>2. /\ ReadIn(file, c) \subseteq Nat /\ ReadIn(file', c) \subseteq ReadIn(file, c)
        /\ StoredOf(c) = Highest(ReadIn(file, c)) /\ StoredOf(c)' = Highest(ReadIn(file', c))
    BY LevelsNow, LevelsNext
  <2>3. \A a \in ReadIn(file', c) : a \in ReadIn(file, c) /\ a \in Nat /\ a <= a
    BY <2>2
  <2>4. Highest(ReadIn(file', c)) <= Highest(ReadIn(file, c))
    BY <2>1, <2>2, <2>3, HighestBelow
  <2>5. QED
    BY <2>2, <2>4
<1>2. \A c \in Channels : PromisedOf(c)' = PromisedOf(c)
  BY DEF PromisedOf
<1>3. \A c \in Channels : PromisedOf(c) <= StoredOf(c)' /\ StoredOf(c)' \in Amounts \cup {None}
  BY <1>2, LevelsNext
<1>4. QED
  BY <1>1, <1>2, <1>3 DEF R!Lose, R!Levels, R!None, None

\* A step after which one more voucher is read stores it, or nothing.
LEMMA StepStores ==
  ASSUME DurInv, DurInv', acked' = acked, NEW d \in Channels, NEW a \in Amounts,
         \A c \in Channels :
           ReadIn(file', c) = IF c = d THEN ReadIn(file, c) \cup {a} ELSE ReadIn(file, c)
  PROVE  R!Store \/ UNCHANGED RegisterVars
<1>1. StoredOf(d)' = IF a > StoredOf(d) THEN a ELSE StoredOf(d)
  <2>1. PICK b \in Nat : Bounds(b, ReadIn(file, d))
    BY LevelsNow
  <2>2. ReadIn(file, d) \subseteq Nat /\ a \in Nat
    BY LevelsNow
  <2>3. Highest(ReadIn(file, d) \cup {a}) = IF a > Highest(ReadIn(file, d)) THEN a ELSE Highest(ReadIn(file, d))
    BY <2>1, <2>2, HighestAdds
  <2>4. QED
    BY <2>3, LevelsNow, LevelsNext
<1>2. \A c \in Channels : c # d => StoredOf(c)' = StoredOf(c)
  BY LevelsNow, LevelsNext
<1>3. \A c \in Channels : PromisedOf(c)' = PromisedOf(c)
  BY DEF PromisedOf
<1>4. CASE a > StoredOf(d)
  BY <1>1, <1>2, <1>3, <1>4 DEF R!Store
<1>5. CASE ~(a > StoredOf(d))
  BY <1>1, <1>2, <1>3, <1>5 DEF RegisterVars
<1>6. QED
  BY <1>4, <1>5

\* An acknowledgement promises what is stored, or what was promised already.
LEMMA StepPromises ==
  ASSUME DurInv, DurInv', file' = file, NEW d \in Channels, NEW a \in Amounts,
         acked' = acked \cup {[ch |-> d, amt |-> a]}
  PROVE  R!Promise \/ UNCHANGED RegisterVars
<1>1. a \in Nat
  OBVIOUS
<1>2. \A c \in Channels : ToldIn(acked', c) = IF c = d THEN ToldIn(acked, c) \cup {a} ELSE ToldIn(acked, c)
  <2> DEFINE q == [ch |-> d, amt |-> a]
  <2>1. q.ch = d /\ q.amt = a /\ acked' = acked \cup {q}
    OBVIOUS
  <2> HIDE DEF q
  <2>2. QED
    BY <2>1 DEF ToldIn
<1>3. PromisedOf(d)' = IF a > PromisedOf(d) THEN a ELSE PromisedOf(d)
  <2>1. PICK b \in Nat : Bounds(b, ToldIn(acked, d))
    BY <1>1, LevelsNow
  <2>2. ToldIn(acked, d) \subseteq Nat
    BY <1>1, LevelsNow
  <2>3. Highest(ToldIn(acked, d) \cup {a}) = IF a > Highest(ToldIn(acked, d)) THEN a ELSE Highest(ToldIn(acked, d))
    BY <1>1, <2>1, <2>2, HighestAdds
  <2>4. QED
    BY <1>1, <1>2, <2>3, LevelsNow, LevelsNext
<1>4. \A c \in Channels : c # d => PromisedOf(c)' = PromisedOf(c)
  BY <1>2, LevelsNow, LevelsNext
<1>5. \A c \in Channels : StoredOf(c)' = StoredOf(c)
  BY LevelsNow, LevelsNext
<1>6. CASE a > PromisedOf(d)
  <2>1. a <= StoredOf(d)
    BY <1>1, <1>3, <1>5, <1>6, LevelsNext
  <2>2. PromisedOf(d) \in Int
    <3>1. PICK b \in Nat : Bounds(b, ToldIn(acked, d)) /\ ToldIn(acked, d) \subseteq Nat
      BY <1>1, LevelsNow
    <3>2. QED
      BY <1>1, <3>1, HighestIs, LevelsNow
  <2>3. [c \in Channels |-> PromisedOf(c)'] = [[c \in Channels |-> PromisedOf(c)] EXCEPT ![d] = a]
    BY <1>3, <1>4, <1>6
  <2>4. [c \in Channels |-> StoredOf(c)'] = [c \in Channels |-> StoredOf(c)]
    BY <1>5
  <2>5. a >= PromisedOf(d)
    BY <1>1, <1>6, <2>2
  <2>6. QED
    BY <2>1, <2>3, <2>4, <2>5 DEF R!Promise
<1>7. CASE ~(a > PromisedOf(d))
  BY <1>3, <1>4, <1>5, <1>7 DEF RegisterVars
<1>8. QED
  BY <1>6, <1>7

\* What a repair or a power loss leaves was there before.
LEMMA FaultLoses ==
  ASSUME DurInv, DurInv', OpenQuarantine \/ PowerLoss
  PROVE  R!Lose
<1> USE DEF DurInv, TypeInv, TypeOK
<1>1. /\ acked' = acked
      /\ \A i \in 1..Len(file') : i \in 1..Len(file) /\ (file'[i].parses => file'[i] = file[i])
  <2>1. CASE OpenQuarantine
    <3>1. file' = SubSeq(file, 1, Len(file) - 1) /\ Len(file) > 0 /\ acked' = acked
      BY <2>1 DEF OpenQuarantine, TornTail
    <3>2. Len(file) - 1 \in 0..Len(file)
      BY <3>1
    <3>3. Len(file') = Len(file) - 1 /\ \A i \in 1..Len(file) - 1 : file'[i] = file[i]
      BY <3>1, <3>2, PrefixType
    <3>4. QED
      BY <3>1, <3>2, <3>3
  <2>2. CASE PowerLoss
    <3>1. PICK n \in synced..Len(file) :
            Len(file') = n /\ \A i \in 1..n : file'[i].parses => file'[i] = file[i]
      BY <2>2, PowerLeaves
    <3>2. QED
      BY <2>2, <3>1 DEF PowerLoss
  <2>3. QED
    BY <2>1, <2>2
<1>2. ASSUME NEW c \in Channels, NEW x \in ReadIn(file', c) PROVE x \in ReadIn(file, c)
  <2>1. PICK i \in 1..Len(file') : Holds(file', i, c) /\ file'[i].amt = x
    BY InRead
  <2>2. i \in 1..Len(file) /\ Holds(file, i, c) /\ file[i].amt = x
    BY <1>1, <2>1 DEF Holds
  <2>3. QED
    BY <2>2, InRead
<1>3. QED
  BY <1>1, <1>2, StepLoses

\* A writeSync() makes its record readable, or nothing.
LEMMA WriteStores ==
  ASSUME DurInv, DurInv', WriteSync
  PROVE  R!Next \/ UNCHANGED RegisterVars
<1> USE DEF DurInv, TypeInv, TypeOK
<1> DEFINE d == write.rec.ch
           a == write.rec.amt
<1>1. PICK q \in Later(write.at) :
        /\ file' = IF term THEN Append(file, LineAt(q)) ELSE [file EXCEPT ![Len(file)] = LineAt(q)]
        /\ acked' = acked
  BY DEF WriteSync
<1>2. /\ write.whole /\ write.at \in {"begun", "part", "json"} /\ q \in {"part", "json", "line"}
      /\ q = "part" => write.at = "begun"
  BY DEF WriteSync, WriteShape, Later
<1>3. /\ LineAt(q) \in Line /\ LineAt(q).ch = d /\ LineAt(q).amt = a
      /\ LineAt(q).parses = (q # "part")
      /\ d \in Channels /\ a \in Amounts
  BY <1>2 DEF LineAt, Line, Record
<1> DEFINE m == Len(file')
<1>4. /\ m \in Nat /\ m > 0 /\ file'[m] = LineAt(q)
      /\ \A i \in 1..m - 1 : i \in 1..Len(file) /\ file'[i] = file[i]
      /\ \A i \in 1..Len(file) : i \in 1..m /\ (i # m => file'[i] = file[i])
  <2>1. CASE term
    BY <1>1, <1>3, <2>1, AppendProperties
  <2>2. CASE ~term
    <3>1. Len(file) \in 1..Len(file)
      BY <2>2 DEF Shape
    <3>2. QED
      BY <1>1, <1>3, <2>2, <3>1, ExceptSeq
  <2>3. QED
    BY <2>1, <2>2
\* What was read of the line being finished is this record.
<1>5. m \in 1..Len(file) /\ file[m].parses => file[m].ch = d /\ file[m].amt = a /\ q # "part"
  <2>1. SUFFICES ASSUME m \in 1..Len(file), file[m].parses
                 PROVE  file[m].ch = d /\ file[m].amt = a /\ q # "part"
    OBVIOUS
  <2>2. ~term /\ m = Len(file)
    <3>1. CASE term
      <4>1. Len(file') = Len(file) + 1
        BY <1>1, <1>3, <3>1, AppendProperties
      <4>2. QED
        BY <2>1, <4>1
    <3>2. CASE ~term
      <4>1. Len(file) \in 1..Len(file)
        BY <3>2 DEF Shape
      <4>2. QED
        BY <1>1, <1>3, <3>2, <4>1, ExceptSeq
    <3>3. QED
      BY <3>1, <3>2
  <2>3. write.at \in {"part", "json"} /\ file[m] = LineAt(write.at)
    BY <2>2 DEF WriteShape, WriteSync
  <2>4. QED
    BY <1>2, <2>3 DEF LineAt
<1>6. ASSUME NEW c \in Channels
      PROVE  ReadIn(file', c) = IF c = d /\ q # "part" THEN ReadIn(file, c) \cup {a} ELSE ReadIn(file, c)
  <2>1. ASSUME NEW x \in ReadIn(file', c) PROVE x \in ReadIn(file, c) \/ (c = d /\ q # "part" /\ x = a)
    <3>1. PICK i \in 1..m : Holds(file', i, c) /\ file'[i].amt = x
      BY InRead
    <3>2. CASE i = m
      BY <1>3, <1>4, <3>1, <3>2 DEF Holds
    <3>3. CASE i # m
      <4>1. i \in 1..Len(file) /\ Holds(file, i, c) /\ file[i].amt = x
        BY <1>4, <3>1, <3>3 DEF Holds
      <4>2. QED
        BY <4>1, InRead
    <3>4. QED
      BY <3>2, <3>3
  <2>2. ASSUME NEW x \in ReadIn(file, c) PROVE x \in ReadIn(file', c)
    <3>1. PICK i \in 1..Len(file) : Holds(file, i, c) /\ file[i].amt = x
      BY InRead
    <3>2. i \in 1..m /\ Holds(file', i, c) /\ file'[i].amt = x
      <4>1. CASE i = m
        BY <1>3, <1>4, <1>5, <3>1, <4>1 DEF Holds
      <4>2. CASE i # m
        BY <1>4, <3>1, <4>2 DEF Holds
      <4>3. QED
        BY <4>1, <4>2
    <3>3. QED
      BY <3>2, InRead
  <2>3. c = d /\ q # "part" => a \in ReadIn(file', c)
    <3>1. SUFFICES ASSUME c = d, q # "part" PROVE a \in ReadIn(file', c)
      OBVIOUS
    <3>2. m \in 1..m
      BY <1>4
    <3>3. Holds(file', m, c) /\ file'[m].amt = a
      BY <1>3, <1>4, <3>1 DEF Holds
    <3>4. QED
      BY <3>2, <3>3, InRead
  <2>4. QED
    BY <2>1, <2>2, <2>3
<1> HIDE DEF d, a, m
<1>7. CASE q = "part"
  BY <1>1, <1>6, <1>7, StepLoses DEF R!Next
<1>8. CASE q # "part"
  BY <1>1, <1>3, <1>6, <1>8, StepStores DEF R!Next
<1>9. QED
  BY <1>7, <1>8

\* Every step of the log is a step of the register, or leaves it alone.
LEMMA RegisterStep == DurInv /\ DurInv' /\ [Next]_vars => R!Next \/ UNCHANGED RegisterVars
<1> SUFFICES ASSUME DurInv, DurInv', [Next]_vars PROVE R!Next \/ UNCHANGED RegisterVars
  OBVIOUS
<1>1. CASE OpenQuarantine \/ PowerLoss
  BY <1>1, FaultLoses DEF R!Next
<1>2. CASE WriteSync
  BY <1>2, WriteStores
<1>3. CASE AppendReturns
  <2>1. write.rec \in Record /\ write.rec = [ch |-> write.rec.ch, amt |-> write.rec.amt]
        /\ write.rec.ch \in Channels /\ write.rec.amt \in Amounts
    BY DEF DurInv, TypeInv, TypeOK, Record
  <2>2. file' = file /\ acked' = acked \cup {[ch |-> write.rec.ch, amt |-> write.rec.amt]}
    BY <1>3, <2>1 DEF AppendReturns
  <2>3. QED
    BY <2>1, <2>2, StepPromises DEF R!Next
<1>4. ASSUME NEW c \in Channels, ServeHighest(c) PROVE R!Next \/ UNCHANGED RegisterVars
  <2>1. /\ file' = file /\ acked' = acked \cup {[ch |-> c, amt |-> index[c]]}
        /\ index[c] \in Amounts
    BY <1>4, LevelInt DEF ServeHighest, DurInv, TypeInv, TypeOK
  <2>2. QED
    BY <2>1, StepPromises DEF R!Next
<1>5. CASE file' = file /\ acked' = acked
  <2>1. \A c \in Channels : StoredOf(c)' = StoredOf(c) /\ PromisedOf(c)' = PromisedOf(c)
    BY <1>5, LevelsNow, LevelsNext
  <2>2. QED
    BY <2>1 DEF RegisterVars
<1>6. QED
  BY <1>1, <1>2, <1>3, <1>4, <1>5
  DEF Next, OpenCorrupt, OpenNewline, OpenClean, Append_, AppendThrows, Crash, vars

\* The log with its crashes and repairs implements the register: what it acknowledged
\* once is stored from then on, and only what was not can be lost.
THEOREM ImplementsRegister == ASSUME CleanErrors, OneFault PROVE Spec => Register
<1>1. Init => R!Init
  <2>1. SUFFICES ASSUME Init PROVE R!Init
    OBVIOUS
  <2>2. ASSUME NEW c \in Channels PROVE StoredOf(c) = None /\ PromisedOf(c) = None
    <3>1. DurInv /\ file = <<>> /\ acked = {}
      BY <2>1, DurInit DEF Init
    <3>2. ReadIn(file, c) = {} /\ ToldIn(acked, c) = {}
      BY <3>1 DEF ReadIn, ToldIn
    <3>3. Bounds(0, {}) /\ Highest({}) = None
      BY HighestIs DEF Bounds
    <3>4. QED
      BY <3>1, <3>2, <3>3, LevelsNow
  <2>3. QED
    BY <2>2 DEF R!Init, R!None, None
<1>2. DurInv /\ DurInv' /\ [Next]_vars => [R!Next]_RegisterVars
  BY RegisterStep
<1>3. QED
  BY <1>1, <1>2, DurInit, DurStep, PTL DEF Spec, Register, R!Spec, RegisterVars
=============================================================================
