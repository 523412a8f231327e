------------------------------ MODULE MacroWrites ------------------------------
(***************************************************************************)
(* The macro storage one write at a time, with power lost between any two: *)
(* macros_start_macro, macros_append, macros_commit_macro and              *)
(* macros_abort_macro as the writes they make to the index, the data and   *)
(* the end offset, in their order.                                         *)
(***************************************************************************)
EXTENDS Macros

VARIABLES
    writes,     \* the writes the call has still to make
    outcome,    \* the recording_state it then leaves
    shown,      \* the storage before it
    key,        \* the trigger being recorded
    former,     \* what every trigger found before that recording
    power       \* whether there is still power

storage == [index |-> macro_index, end |-> macros_end_offset, data |-> macros,
            recording |-> recording_state]
stepVars == <<vars, writes, outcome, shown, key, former, power>>

Write(part, at, value) == [part |-> part, at |-> at, value |-> value]

\* Mutant: the entries move up from the front.
MutMoveUpWritesForward(p) ==
    LET from == Ascending({i \in Entries : i > p /\ macro_index[i - 1].keys # NO_TRIGGER})
    IN  [n \in 1..Len(from) |-> Write("index", from[n], macro_index[p])]

\* macro_idx_create: the entries behind the new one move up, from the end.
MoveUpWrites(p) ==
    LET from == Descending({i \in Entries : i > p /\ macro_index[i - 1].keys # NO_TRIGGER})
    IN  [n \in 1..Len(from) |-> Write("index", from[n], macro_index[from[n] - 1])]

\* The last write of macros_start_macro gives the entry its data offset.
SetData(entry, k, end) == <<Write("index", entry, [keys |-> k, type |-> "MACRO", data |-> end])>>

\* The key is written into the entry before its offset is.
NewWrites(k) ==
    LET p == CreatePosition(macro_index, k)
    IN  MoveUpWrites(p) \o <<Write("index", p, [macro_index[p] EXCEPT !.keys = k])>>
            \o SetData(p, k, macros_end_offset)

\* What delete_macro_data makes of what is stored.
Left(entry) == delete_macro_data(macro_index, macros_end_offset, macros, entry)

\* delete_macro_data: the data moves down, then the entries follow one by one,
\* then the end offset.  Nothing else changes them meanwhile, so every write is
\* known beforehand; those that change nothing are left out.
DeleteWrites(entry) ==
    LET left == Left(entry)
        bytes == Ascending({a \in Addresses : left.data[a] # macros[a]})
        moved == Ascending({i \in Entries : left.index[i] # macro_index[i]})
    IN  [n \in 1..Len(bytes) |-> Write("data", bytes[n], left.data[bytes[n]])]
            \o [n \in 1..Len(moved) |-> Write("index", moved[n], left.index[moved[n]])]
            \o (IF left.end # macros_end_offset THEN <<Write("end", 0, left.end)>> ELSE <<>>)

AgainWrites(entry) ==
    DeleteWrites(entry) \o SetData(entry, macro_index[entry].keys, Left(entry).end)

\* macro_idx_remove: the entries behind the removed one move down.
RemoveWrites(entry) ==
    LET left == macro_idx_remove(macro_index, entry)
        stop == Min({i \in Entries : i >= entry /\ MovedDown(macro_index, i).keys = NO_TRIGGER})
    IN  [n \in 1..(stop - entry + 1) |-> Write("index", entry + n - 1, left[entry + n - 1])]

CommitWrites ==
    <<Write("data", recording_state.macro, Recorded),
      Write("end", 0, (macros_end_offset + Recorded + MACRO_DATA_HEADER_LEN) % 65536)>>

--------------------------------------------------------------------------------
\* What a trigger finds: macro_idx_lookup, then the length and the events.
Found(k) ==
    LET entry == macro_idx_lookup(macro_index, k)
        at == macro_index[entry].data
    IN  IF entry = NULL THEN [offset |-> NULL, plays |-> <<>>]
        ELSE IF macro_index[entry].type # "MACRO" THEN [offset |-> NULL, plays |-> <<at>>]
        ELSE [offset |-> at, plays |-> Bytes(EventsAt(at), macros[at])]

\* No call is in progress.
Between == writes = <<>>

Begin(list, after) ==
    /\ power /\ Between
    /\ writes' = list /\ outcome' = after /\ shown' = storage
    /\ UNCHANGED <<vars, power>>

BeginRecord(k, entry, list, end) ==
    /\ Idle /\ ~disturbed
    /\ Begin(list, [macro |-> end, cursor |-> EventsAt(end), index_entry |-> entry])
    /\ key' = k /\ former' = [t \in Triggers |-> Found(t)]

BeginStart(k) ==
    LET entry == macro_idx_lookup(macro_index, k)
    IN  \/ /\ entry # NULL
           /\ BeginRecord(k, entry, AgainWrites(entry), Left(entry).end)
        \/ /\ entry = NULL /\ ~IndexFull(macro_index)
           /\ BeginRecord(k, CreatePosition(macro_index, k), NewWrites(k), macros_end_offset)

\* Mutant: an empty recording is committed like any other.
MutBeginEndKeepsEmpty ==
    /\ recording_state # NotRecording
    /\ \/ Begin(CommitWrites, NotRecording)
       \/ Begin(RemoveWrites(recording_state.index_entry), NotRecording)
    /\ UNCHANGED <<key, former>>

\* macros_commit_macro, macros_abort_macro
BeginEnd ==
    /\ recording_state # NotRecording
    /\ \/ Recorded # 0 /\ Begin(CommitWrites, NotRecording)
       \/ Begin(RemoveWrites(recording_state.index_entry), NotRecording)
    /\ UNCHANGED <<key, former>>

DoWrite ==
    /\ power /\ writes # <<>>
    /\ writes' = Tail(writes)
    /\ LET w == Head(writes)
       IN  /\ macro_index' = IF w.part # "index" THEN macro_index
                             ELSE [macro_index EXCEPT ![w.at] = w.value]
           /\ macros' = IF w.part # "data" THEN macros ELSE [macros EXCEPT ![w.at] = w.value]
           /\ macros_end_offset' = IF w.part # "end" THEN macros_end_offset ELSE w.value
    /\ IF Len(writes) = 1
       THEN /\ recording_state' = outcome
            /\ outcome' = NotRecording /\ shown' = <<>>
            /\ IF outcome = NotRecording THEN key' = NO_TRIGGER /\ former' = <<>>
               ELSE UNCHANGED <<key, former>>
       ELSE UNCHANGED <<recording_state, outcome, shown, key, former>>
    /\ UNCHANGED <<playback_state, disturbed, power>>

\* macros_append: a single write
Append1(event) ==
    /\ power /\ Between /\ macros_append(event)
    /\ UNCHANGED <<writes, outcome, shown, key, former, power>>

\* The rest of the call and recording_state are forgotten; config_init will
\* find a valid sentinel, so what is stored now is what the keyboard starts with.
PowerLoss ==
    /\ power /\ (~Between \/ recording_state # NotRecording)
    /\ power' = FALSE
    /\ UNCHANGED <<vars, writes, outcome, shown, key, former>>

\* Between two calls: a macro is played, and the host, which does not wait for a
\* recording or a playback to end, writes the index or resets the storage.
Play ==
    /\ power /\ Between
    /\ macros_fill_next_report \/ \E k \in Triggers : macros_start_playback(k)
    /\ UNCHANGED <<writes, outcome, shown, key, former, power>>

ClientWrites(k) ==
    /\ power /\ Between /\ ClientAddsProgram(k)
    /\ UNCHANGED <<writes, outcome, shown, key, former, power>>

Reset ==
    /\ power /\ Between /\ reset_defaults
    /\ UNCHANGED <<writes, outcome, shown, key, former, power>>

StepInit ==
    /\ Init
    /\ writes = <<>> /\ outcome = NotRecording /\ shown = <<>>
    /\ key = NO_TRIGGER /\ former = <<>> /\ power = TRUE

StepNext ==
    \/ DoWrite \/ PowerLoss \/ BeginEnd \/ Play \/ Reset
    \/ \E k \in Triggers : BeginStart(k)
    \/ \E event \in Events : Append1(event)
    \/ \E k \in ProgramTriggers : ClientWrites(k)

StepSpec == StepInit /\ [][StepNext]_stepVars

--------------------------------------------------------------------------------
\* The storage as the calls leave it: what was there before, until the last
\* write of a call is made.
Visible == IF Between THEN storage ELSE shown

Whole == INSTANCE Macros WITH
    macro_index <- Visible.index,
    macros_end_offset <- Visible.end,
    macros <- Visible.data,
    recording_state <- Visible.recording

\* macros_start_macro, macros_commit_macro, macros_abort_macro: the writes of a
\* call that is not interrupted add up to the single step Macros takes for it.
ImplementsMacros == Whole!Spec

\* macro_idx_create, macro_idx_remove: between two calls the used entries come
\* first and ascend strictly, so that the bisection of macro_idx_lookup finds
\* every trigger.
SortedBetween == Whole!IndexSorted

\* macros_commit_macro, delete_macro_data: between two calls the committed macros
\* fill the area up to the end offset without gaps and overlaps, whatever was
\* recorded, replaced or deleted and whenever the host resets the storage or writes
\* the index; only a request that falls into a recording undoes it, until a reset
\* outside of one.
PackedBetween == ~disturbed => Whole!DataPacked

\* The same without the exception, while nothing is recorded.
PackedAlways == Visible.recording = NotRecording => Whole!DataPacked

\* Index and data together behave as a map from triggers to macros (MacroStore):
\* recording, replacing or deleting one leaves all the others as they were, and
\* macros_fill_next_report plays exactly the recorded events; a reset outside a
\* recording restores the map even after one inside has broken it.
ImplementsStoreBetween == Whole!ImplementsStore

\* macros_start_macro, macro_idx_create, macro_idx_remove, macros_commit_macro:
\* wherever power is lost while a macro is recorded, every other trigger still
\* finds its macro or program, although the index is being moved under the
\* search; only macros stored behind a replaced one are not safe, and none is when
\* the host changed the storage under the recording.
KeepsOtherMacros ==
    ~power /\ ~disturbed => \A k \in Triggers \ {key} :
        \/ former[key].offset \in 0..(former[k].offset - 1)
        \/ Found(k).plays = former[k].plays
================================================================================
