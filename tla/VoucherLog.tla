------------------------------ MODULE VoucherLog ------------------------------
(***************************************************************************)
(* persistence/voucher-log.ts: the append-only JSONL file each role keeps, *)
(* the write loop + fsync of append(), the replay and the two repairs of   *)
(* open(), and the in-memory index of the highest voucher per channel.     *)
(*                                                                         *)
(* A line is abstracted to the record it came from and to whether it still *)
(* parses; the write loop to the positions at which a crash or an I/O      *)
(* error can leave it.                                                     *)
(***************************************************************************)
EXTENDS Integers, Sequences, FiniteSets

CONSTANTS
  Channels,
  Amounts,      \* cumulative amounts a voucher can carry
  FailPoints,   \* positions of append() at which the OS may return an error
  Faults,       \* subset of {"crash", "power"}: process death, power loss
  MaxLines      \* bound: append() is not called on a file with this many lines

ASSUME AmountsAssumption == Amounts \subseteq Nat
ASSUME LinesAssumption == MaxLines \in Nat
ASSUME FaultsAssumption ==
  FailPoints \subseteq {"begun", "part", "json", "line"} /\ Faults \subseteq {"crash", "power"}

VARIABLES
  file,    \* the lines of the file, in order
  term,    \* the file is empty or ends with "\n"
  synced,  \* number of leading lines known to be on the medium
  status,  \* the owner: "down", "open", or "corrupt" (instance unavailable)
  index,   \* in-memory highest amount per channel
  write,   \* the append() in progress: its record, position, own line or glued
  acked    \* history: the vouchers somebody was told are accepted

vars == <<file, term, synced, status, index, write, acked>>

None == -1
Record == [ch : Channels, amt : Amounts]
Line == [ch : Channels, amt : Amounts, parses : BOOLEAN]
Position == {"idle", "begun", "part", "json", "line"}
Index == [Channels -> Amounts \cup {None}]

\* The types; and the file is never shorter than what an fsync has covered.
TypeOK ==
  /\ file \in Seq(Line)
  /\ term \in BOOLEAN
  /\ synced \in 0..Len(file)
  /\ status \in {"down", "open", "corrupt"}
  /\ index \in Index
  /\ write \in [rec : Record, at : Position, whole : BOOLEAN]
  /\ acked \subseteq Record

\* Line i of f holds a readable voucher of channel c.
Holds(f, i, c) == f[i].parses /\ f[i].ch = c

\* idx is what updateIndex() leaves after every readable line of f: the maximum,
\* whatever the order of the lines.
IsReplayOf(idx, f) ==
  \A c \in Channels :
    \/ /\ idx[c] = None
       /\ \A i \in 1..Len(f) : ~Holds(f, i, c)
    \/ /\ \E i \in 1..Len(f) : Holds(f, i, c) /\ f[i].amt = idx[c]
       /\ \A i \in 1..Len(f) : Holds(f, i, c) => f[i].amt <= idx[c]

CorruptMiddle(f) == \E i \in 1..Len(f) - 1 : ~f[i].parses
TornTail(f) == Len(f) > 0 /\ ~f[Len(f)].parses

ASSUME InstanceAssumption == Channels # {} /\ Amounts # {}
NoIndex == [c \in Channels |-> None]
NoWrite == [rec |-> CHOOSE r \in Record : TRUE, at |-> "idle", whole |-> TRUE]

Init ==
  /\ file = <<>> /\ term = TRUE /\ synced = 0
  /\ status = "down" /\ index = NoIndex
  /\ write = NoWrite /\ acked = {}

----------------------------------------------------------------------------
(* VoucherLog.open() *)

Serve(f) == /\ status' = "open"
            /\ \E idx \in Index : IsReplayOf(idx, f) /\ index' = idx

\* A bad line that is not the last: the role stays unavailable.
OpenCorrupt ==
  /\ status # "open" /\ CorruptMiddle(file)
  /\ status' = "corrupt"
  /\ UNCHANGED <<file, term, synced, index, write, acked>>

\* Mutant: validByteLength taken one line too early.
OpenQuarantineCutsTwo ==
  /\ status # "open" /\ ~CorruptMiddle(file) /\ TornTail(file)
  /\ file' = SubSeq(file, 1, Len(file) - 2)
  /\ term' = TRUE
  /\ synced' = IF synced < Len(file') THEN synced ELSE Len(file')
  /\ Serve(file')
  /\ UNCHANGED <<write, acked>>

\* Mutant: truncateSync() is left its default length, and empties the file.
OpenQuarantineEmpties ==
  /\ status # "open" /\ ~CorruptMiddle(file) /\ TornTail(file)
  /\ file' = <<>>
  /\ term' = TRUE
  /\ synced' = IF synced < Len(file) THEN synced ELSE Len(file) - 1
  /\ Serve(file')
  /\ UNCHANGED <<write, acked>>

\* A bad last line is moved to the sidecar and the file truncated before it.
OpenQuarantine ==
  /\ status # "open" /\ ~CorruptMiddle(file) /\ TornTail(file)
  /\ file' = SubSeq(file, 1, Len(file) - 1)
  /\ term' = TRUE
  /\ synced' = IF synced < Len(file) THEN synced ELSE Len(file) - 1
  /\ Serve(file')
  /\ UNCHANGED <<write, acked>>

\* Mutant: the missing newline is noticed and not written.
OpenNewlineSkipped ==
  /\ status # "open" /\ ~CorruptMiddle(file) /\ ~TornTail(file) /\ ~term
  /\ Serve(file)
  /\ UNCHANGED <<file, term, synced, write, acked>>

\* Every line parses but the last lacks its "\n": append it and fsync.
OpenNewline ==
  /\ status # "open" /\ ~CorruptMiddle(file) /\ ~TornTail(file) /\ ~term
  /\ term' = TRUE /\ synced' = Len(file)
  /\ Serve(file)
  /\ UNCHANGED <<file, write, acked>>

OpenClean ==
  /\ status # "open" /\ ~CorruptMiddle(file) /\ ~TornTail(file) /\ term
  /\ Serve(file)
  /\ UNCHANGED <<file, term, synced, write, acked>>

----------------------------------------------------------------------------
(* VoucherLog.append(); every caller has just read a lower getHighest() *)

Append_(r) ==
  /\ status = "open" /\ write.at = "idle"
  /\ r.amt > index[r.ch] /\ Len(file) < MaxLines
  /\ write' = [rec |-> r, at |-> "begun", whole |-> term]
  /\ UNCHANGED <<file, term, synced, status, index, acked>>

\* The bytes of the record up to position q, whole only on a line of its own.
LineAt(q) == [ch |-> write.rec.ch, amt |-> write.rec.amt,
              parses |-> write.whole /\ q # "part"]

Later(q) == CASE q = "begun" -> {"part", "json", "line"}
              [] q = "part"  -> {"json", "line"}
              [] q = "json"  -> {"line"}
              [] OTHER       -> {}

\* One writeSync(), which may be short.
WriteSync ==
  \E q \in Later(write.at) :
    /\ status = "open"
    /\ file' = IF term THEN Append(file, LineAt(q))
                       ELSE [file EXCEPT ![Len(file)] = LineAt(q)]
    /\ term' = (q = "line")
    /\ write' = [write EXCEPT !.at = q]
    /\ UNCHANGED <<synced, status, index, acked>>

\* Mutant: the caller is acknowledged before fsyncSync() has returned.
AppendReturnsUnsynced ==
  /\ status = "open" /\ write.at = "line"
  /\ index' = IF index[write.rec.ch] >= write.rec.amt THEN index
              ELSE [index EXCEPT ![write.rec.ch] = write.rec.amt]
  /\ acked' = acked \cup {write.rec}
  /\ write' = NoWrite
  /\ UNCHANGED <<file, term, synced, status>>

\* Mutant: append() forgets updateIndex().
AppendReturnsUnindexed ==
  /\ status = "open" /\ write.at = "line"
  /\ synced' = Len(file)
  /\ acked' = acked \cup {write.rec}
  /\ write' = NoWrite
  /\ UNCHANGED <<file, term, status, index>>

\* fsyncSync() returns, the index moves, the caller acknowledges.
AppendReturns ==
  /\ status = "open" /\ write.at = "line"
  /\ synced' = Len(file)
  /\ index' = IF index[write.rec.ch] >= write.rec.amt THEN index
              ELSE [index EXCEPT ![write.rec.ch] = write.rec.amt]
  /\ acked' = acked \cup {write.rec}
  /\ write' = NoWrite
  /\ UNCHANGED <<file, term, status>>

\* writeSync() or fsyncSync() throws: no index update, no acknowledgement,
\* and whatever was written stays where it is.
AppendThrows ==
  /\ status = "open" /\ write.at \in FailPoints
  /\ write' = NoWrite
  /\ UNCHANGED <<file, term, synced, status, index, acked>>

\* getHighest() behind an equal reading (agent resolveEqual, store.accept's
\* reused branch): the indexed voucher is acknowledged without a new line.
ServeHighest(c) ==
  /\ status = "open" /\ write.at = "idle" /\ index[c] # None
  /\ acked' = acked \cup {[ch |-> c, amt |-> index[c]]}
  /\ UNCHANGED <<file, term, synced, status, index, write>>

----------------------------------------------------------------------------
(* Faults *)

\* The process dies; the operating system keeps what was written.
Crash ==
  /\ "crash" \in Faults /\ status = "open"
  /\ status' = "down" /\ index' = NoIndex /\ write' = NoWrite
  /\ UNCHANGED <<file, term, synced, acked>>

\* Power is lost: of the bytes not fsynced any prefix survives, and what
\* survives is on the medium.
PowerLoss ==
  /\ "power" \in Faults
  /\ status' = "down" /\ index' = NoIndex /\ write' = NoWrite
  /\ \E n \in synced..Len(file) :
       \/ /\ file' = SubSeq(file, 1, n)
          /\ term' = (n = Len(file) => term)
       \/ /\ n > synced
          /\ \E p \in BOOLEAN :
               /\ p => file[n].parses
               /\ file' = [SubSeq(file, 1, n) EXCEPT ![n].parses = p]
          /\ term' = FALSE
  /\ synced' = IF term' THEN Len(file') ELSE Len(file') - 1
  /\ UNCHANGED acked

Next ==
  \/ OpenCorrupt \/ OpenQuarantine \/ OpenNewline \/ OpenClean
  \/ \E r \in Record : Append_(r)
  \/ WriteSync \/ AppendReturns \/ AppendThrows
  \/ \E c \in Channels : ServeHighest(c)
  \/ Crash \/ PowerLoss

Spec == Init /\ [][Next]_vars

----------------------------------------------------------------------------
(* Properties *)

\* What a restart now, or after losing everything that is not certainly on the
\* medium, would still find: a readable line at least as high as the voucher.
Kept(r) == \E i \in 1..Len(file) : Holds(file, i, r.ch) /\ file[i].amt >= r.amt

\* VP-R3: no crash or power loss costs an acknowledged voucher: the file can
\* be reopened and still holds it, or a higher one of the same channel.
AckedSurvive == ~CorruptMiddle(file) /\ \A r \in acked : Kept(r)

\* An owner that reopened its file never believes in a highest voucher below
\* one it acknowledged before the crash (it would sign, or accept, it again).
OpenKnowsAcked == status = "open" => \A r \in acked : index[r.ch] >= r.amt

\* VP-R7: whatever fails, and whatever open() repairs, a readable line that was
\* fsynced is never rewritten, moved or cut.
SyncedNeverRewritten ==
  [][\A i \in 1..synced : file[i].parses => i <= Len(file') /\ file'[i] = file[i]]_vars

\* The log implements the abstract register: stored is what a replay of the
\* file finds, promised the highest voucher acknowledged.
Highest(S) == IF S = {} THEN None ELSE CHOOSE a \in S : \A b \in S : b <= a
StoredOf(c) == Highest({file[i].amt : i \in {j \in 1..Len(file) : Holds(file, j, c)}})
PromisedOf(c) == Highest({r.amt : r \in {q \in acked : q.ch = c}})
R == INSTANCE VoucherRegister WITH
       stored <- [c \in Channels |-> StoredOf(c)],
       promised <- [c \in Channels |-> PromisedOf(c)]
Register == R!Spec
=============================================================================
