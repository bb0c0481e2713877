---------------------------- MODULE RecordStream ----------------------------
(***************************************************************************)
(* ReaderRecordStream of src/bridgewire/reader.py between the serial       *)
(* session and the loop of BridgewireRuntime: what the device sends is cut *)
(* into chunks by the reads, feed() cuts it into records, and the loop     *)
(* submits what feed() returned.  The stream outlives the session: a       *)
(* disconnect does not clear it.                                           *)
(*                                                                         *)
(* A byte is STX, ETX or one of a few others; Records is the set of byte   *)
(* sequences that parse_reader_record accepts, so that its checks of       *)
(* single positions and of the checksum are one membership.  A result      *)
(* carries the places of its bytes in `wire', everything read so far.      *)
(***************************************************************************)
EXTENDS Integers, Sequences

CONSTANTS
  Bytes, STX, ETX,
  RecordLength,      \* RECORD_LENGTH
  Records,           \* what parse_reader_record accepts
  MaximumBuffer,     \* maximum_buffer
  MaxChunk,          \* os.read(fd, 64)
  MaxBytes,          \* bound: bytes read in a behaviour
  MaxSessions        \* bound: sessions in a behaviour

ASSUME StreamAssumption ==
  /\ STX \in Bytes /\ ETX \in Bytes /\ STX # ETX
  /\ RecordLength \in Nat /\ RecordLength > 1
  /\ Records \subseteq Seq(Bytes)
  /\ \A r \in Records :
       /\ Len(r) = RecordLength
       /\ r[1] = STX /\ r[RecordLength] = ETX
       /\ \A i \in 2..(RecordLength - 1) : r[i] \notin {STX, ETX}
  /\ MaximumBuffer \in Nat /\ MaximumBuffer >= RecordLength
  /\ MaxChunk \in Nat \ {0} /\ MaxBytes \in Nat /\ MaxSessions \in Nat

VARIABLES
  buffer,      \* _buffer
  results,     \* every result of feed(), oldest first
  decided,     \* how many of them process() has decided and audited
  stage,       \* "reading", "feeding", "submitting", or "escaped" from the loop
  connected,   \* ReaderSupervisor.connected
  sessions,    \* sessions opened so far
  wire,        \* history: every byte fed
  starts       \* history: the places in `wire' where a session began

streamVars == <<buffer, results, decided, stage, connected, sessions, wire, starts>>

Results == [kind : {"parsed", "malformed", "framing", "excessive"}, from : Nat, to : Nat]

StreamTypeOK ==
  /\ buffer \in Seq(Bytes)
  /\ results \in Seq(Results)
  /\ decided \in 0..Len(results)
  /\ stage \in {"reading", "feeding", "submitting", "escaped"}
  /\ connected \in BOOLEAN /\ sessions \in Nat
  /\ wire \in Seq(Bytes)
  /\ starts \subseteq Nat

StreamInit ==
  /\ buffer = <<>> /\ results = <<>> /\ decided = 0
  /\ stage = "reading"
  /\ connected = FALSE /\ sessions = 0
  /\ wire = <<>> /\ starts = {}

-----------------------------------------------------------------------------
(* Connect and disconnect, as far as the stream is concerned: it is told of  *)
(* neither.                                                                  *)
Connects ==
  /\ stage = "reading" /\ ~ connected /\ sessions < MaxSessions
  /\ sessions' = sessions + 1
  /\ connected' = TRUE
  /\ starts' = starts \cup {Len(wire) + 1}
  /\ UNCHANGED <<buffer, results, decided, stage, wire>>

Disconnects ==
  /\ stage = "reading" /\ connected
  /\ connected' = FALSE
  /\ UNCHANGED <<buffer, results, decided, stage, sessions, wire, starts>>

(* read_once and the head of feed: the chunk is appended to the buffer. *)
Read(chunk) ==
  /\ stage = "reading" /\ connected
  /\ wire' = wire \o chunk
  /\ buffer' = buffer \o chunk
  /\ stage' = "feeding"
  /\ UNCHANGED <<results, decided, connected, sessions, starts>>

(* The event of the read raises, and the chunk is lost with the loop. *)
ReadEscapes ==
  /\ stage = "reading" /\ connected
  /\ stage' = "escaped"
  /\ UNCHANGED <<buffer, results, decided, connected, sessions, wire, starts>>

(* The place in `wire' of the buffer's first byte: the buffer is what was    *)
(* read last.                                                                *)
Base == Len(wire) - Len(buffer) + 1

(* A result about the first n bytes of the buffer, which leave it. *)
Takes(kind, n) ==
  /\ buffer' = SubSeq(buffer, n + 1, Len(buffer))
  /\ results' = Append(results, [kind |-> kind, from |-> Base, to |-> Base + n - 1])

Feeding == stage = "feeding" /\ buffer # <<>>

IsFirst(n, byte, first) ==
  /\ n \in first..Len(buffer) /\ buffer[n] = byte
  /\ \A i \in first..(n - 1) : buffer[i] # byte

(* Mutant: what precedes the next STX takes the whole buffer with it. *)
MutSkipToStart ==
  /\ Feeding /\ buffer[1] # STX
  /\ Takes("framing", Len(buffer))
  /\ UNCHANGED <<decided, stage, connected, sessions, wire, starts>>

(* The loop of feed, one iteration a step.  What precedes the next STX, or   *)
(* the whole buffer if there is none, is one framing error.                  *)
SkipToStart ==
  /\ Feeding /\ buffer[1] # STX
  /\ \/ \E n \in 2..Len(buffer) : IsFirst(n, STX, 1) /\ Takes("framing", n - 1)
     \/ /\ \A i \in 1..Len(buffer) : buffer[i] # STX
        /\ Takes("framing", Len(buffer))
  /\ UNCHANGED <<decided, stage, connected, sessions, wire, starts>>

(* parse_reader_record *)
Parsed(raw) == IF raw \in Records THEN "parsed" ELSE "malformed"

(* Mutant: a record begins at the last STX before its terminator, and what   *)
(* stands before that is forgotten.                                          *)
MutCutRecord ==
  /\ Feeding /\ buffer[1] = STX
  /\ \E n \in 2..Len(buffer), m \in 1..Len(buffer) :
       /\ IsFirst(n, ETX, 2)
       /\ m < n /\ buffer[m] = STX /\ \A i \in (m + 1)..n : buffer[i] # STX
       /\ buffer' = SubSeq(buffer, n + 1, Len(buffer))
       /\ results' = Append(results,
            [kind |-> Parsed(SubSeq(buffer, m, n)), from |-> Base + m - 1, to |-> Base + n - 1])
  /\ UNCHANGED <<decided, stage, connected, sessions, wire, starts>>

(* STX up to the first ETX is a record, parsed or malformed. *)
CutRecord ==
  /\ Feeding /\ buffer[1] = STX
  /\ \E n \in 2..Len(buffer) :
       /\ IsFirst(n, ETX, 2)
       /\ Takes(Parsed(SubSeq(buffer, 1, n)), n)
  /\ UNCHANGED <<decided, stage, connected, sessions, wire, starts>>

Unterminated == buffer[1] = STX /\ \A i \in 2..Len(buffer) : buffer[i] # ETX

(* feed returns, and read_records_once emits reader_record_malformed if one  *)
(* of the new results is; an emit that raises takes them all with it.        *)
FeedReturns ==
  \/ stage' = "submitting"
  \/ /\ \E k \in (decided + 1)..Len(results') : results'[k].kind # "parsed"
     /\ stage' = "escaped"

(* The loop ends on an empty buffer or an unterminated record, which is      *)
(* dropped when it exceeds the maximum.                                      *)
FeedEnds ==
  /\ stage = "feeding"
  /\ \/ buffer = <<>> /\ UNCHANGED <<buffer, results>>
     \/ /\ buffer # <<>> /\ Unterminated
        /\ IF Len(buffer) > MaximumBuffer THEN Takes("excessive", Len(buffer))
           ELSE UNCHANGED <<buffer, results>>
  /\ FeedReturns
  /\ UNCHANGED <<decided, connected, sessions, wire, starts>>

(* Mutant: run_once stops at the first malformed record of a batch. *)
MutSubmit ==
  /\ stage = "submitting"
  /\ IF decided < Len(results) /\ results[decided + 1].kind = "parsed"
     THEN decided' = decided + 1 /\ UNCHANGED <<stage, results>>
     ELSE /\ stage' = "reading" /\ UNCHANGED decided
          /\ results' = SubSeq(results, 1, decided)
  /\ UNCHANGED <<buffer, connected, sessions, wire, starts>>

(* run_once: submit_record of each result in turn.  One that raises ends the *)
(* loop, with the results after it undecided.                                *)
Submit ==
  /\ stage = "submitting"
  /\ \/ /\ decided < Len(results)
        /\ \/ decided' = decided + 1 /\ UNCHANGED stage
           \/ stage' = "escaped" /\ UNCHANGED decided
     \/ /\ decided = Len(results)
        /\ stage' = "reading" /\ UNCHANGED decided
  /\ UNCHANGED <<buffer, results, connected, sessions, wire, starts>>

StreamNext ==
  \/ Connects \/ Disconnects \/ ReadEscapes
  \/ \E n \in 1..MaxChunk :
       /\ Len(wire) + n <= MaxBytes
       /\ \E chunk \in [1..n -> Bytes] : Read(chunk)
  \/ SkipToStart \/ CutRecord \/ FeedEnds \/ Submit

StreamSpec == StreamInit /\ [][StreamNext]_streamVars

-----------------------------------------------------------------------------
(* The reference: what the whole wire says, however it was chunked.  A frame *)
(* ends at an ETX and begins at the first STX after the ETX before it.       *)
Frames ==
  {f \in (1..Len(wire)) \X (1..Len(wire)) :
     /\ f[1] < f[2]
     /\ wire[f[1]] = STX /\ wire[f[2]] = ETX
     /\ \A i \in f[1]..(f[2] - 1) : wire[i] # ETX
     /\ \A i \in 1..(f[1] - 1) :
          wire[i] = STX => \E j \in (i + 1)..(f[1] - 1) : wire[j] = ETX}

Closed == {k \in 1..Len(results) : results[k].kind \in {"parsed", "malformed"}}
Span(k) == <<results[k].from, results[k].to>>
Piece(k) == SubSeq(wire, results[k].from, results[k].to)

(* reader-contract.md "retains a bounded partial record and can return       *)
(* multiple complete records from one read": where the reads cut the wire    *)
(* makes no difference.  As long as nothing exceeded the buffer, the         *)
(* records between two reads are exactly the frames of the whole wire.       *)
ChunkingDoesNotMatter ==
  (stage = "reading" /\ \A k \in 1..Len(results) : results[k].kind # "excessive") =>
    {Span(k) : k \in Closed} = Frames

(* FR-004, "MUST NOT silently reinterpret malformed records as valid         *)
(* credentials", as far as the stream sees to it: what is parsed is an       *)
(* accepted record, its bytes stand next to each other on the wire, it       *)
(* shares none with anything else reported, and no record that was begun     *)
(* before it and not ended was passed over: that is closed as a longer,      *)
(* malformed one, unless it was dropped whole as excessive.  The wire is all *)
(* the stream ever sees.  It joins the sessions, and a piece of it may begin *)
(* in one and end in the next: see ParsedInOneSession.                       *)
BegunBefore(p) == {i \in 1..(p - 1) : wire[i] = STX}
EndedBefore(i, p) == \E j \in (i + 1)..(p - 1) : wire[j] = ETX
DroppedWhole(i) ==
  \E l \in 1..Len(results) :
    results[l].kind = "excessive" /\ results[l].from <= i /\ i <= results[l].to

ParsedIsARecordOfItsOwn ==
  /\ \A k \in 1..Len(results) : results[k].kind = "parsed" =>
       /\ Piece(k) \in Records
       /\ \A i \in BegunBefore(results[k].from) :
            EndedBefore(i, results[k].from) \/ DroppedWhole(i)
  /\ \A k \in 1..Len(results), l \in 1..Len(results) :
       k < l => results[k].to < results[l].from

(* reader-contract.md:10, "Empty, partial, [...] records cannot become       *)
(* credentials", said of sessions: no session begins within what is parsed.  *)
(* (One does, where the session before ended within a record, and the bytes  *)
(* the next one begins with happen to complete it: two halves of different   *)
(* records make one credential.)                                             *)
ParsedInOneSession ==
  \A k \in 1..Len(results) : results[k].kind = "parsed" =>
    \A s \in starts : s <= results[k].from \/ s > results[k].to

(* AC-006 "No second record may be lost": whatever came before, a good       *)
(* record that follows a terminator is decided when its read has been dealt  *)
(* with, also when the wire was noise, overran the buffer or changed the     *)
(* session; and the buffer stays bounded.                                    *)
InSync(i) == i = 1 \/ wire[i - 1] = ETX

SyncedRecordsAreDecided ==
  (stage = "reading") =>
    /\ Len(buffer) <= MaximumBuffer
    /\ \A i \in 1..(Len(wire) - RecordLength + 1) :
         (InSync(i) /\ SubSeq(wire, i, i + RecordLength - 1) \in Records) =>
           \E k \in 1..decided :
             results[k] = [kind |-> "parsed", from |-> i, to |-> i + RecordLength - 1]

(* AC-002 "when its complete record is received, then an authorized event is *)
(* recorded": the first record of a session, received as a whole, is         *)
(* decided.  (It is not where the session before ended within a record.)     *)
FirstRecordIsDecided ==
  (stage = "reading") =>
    \A i \in starts :
      (/\ i + RecordLength - 1 <= Len(wire)
       /\ SubSeq(wire, i, i + RecordLength - 1) \in Records
       /\ \A s \in starts : s <= i \/ s >= i + RecordLength) =>
         \E k \in 1..decided : results[k].kind = "parsed" /\ results[k].from = i

=============================================================================
