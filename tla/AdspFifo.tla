------------------------------ MODULE AdspFifo ------------------------------
(***************************************************************************)
(* adsp_fifo_t, the single-producer single-consumer FIFO by which          *)
(* adsp_pipeline_source passes a frame to a DSP thread.  The two sides     *)
(* share the buffer, its head and a volatile state, without a lock; a word *)
(* on a channel wakes the consumer's select.                               *)
(*                                                                         *)
(* A transaction is NumWrites calls of adsp_fifo_write, one per audio      *)
(* channel, answered by as many calls of adsp_fifo_read.  A step is one    *)
(* store or load of the shared state, or one call of write or read.        *)
(***************************************************************************)
EXTENDS Naturals

CONSTANTS
  NumWrites,  \* writes in a transaction: the audio channels of this input thread
  Samples,    \* what one write carries (the samples of a channel in a frame)
  Empty       \* no frame

ASSUME NumWritesAssumption == NumWrites \in Nat
ASSUME EmptyAssumption == Empty \notin [0 .. NumWrites - 1 -> Samples]

VARIABLES
  state,    \* fifo->state
  head,     \* fifo->head, counted in writes
  buffer,   \* fifo->buffer
  words,    \* notification words in the channel
  wpc,      \* where the producer is
  frame,    \* the frame it sends
  written,  \* writes it has made in this transaction
  rpc,      \* where the consumer is
  edges,    \* the consumer's edge arrays
  nread,    \* reads it has made in this transaction
  input     \* the frame the DSP thread processes next, or Empty

writerVars == <<wpc, frame, written>>
readerVars == <<rpc, edges, nread, input>>
vars == <<state, head, buffer, words, writerVars, readerVars>>

Slots == 0 .. NumWrites - 1
Frames == [Slots -> Samples]

\* adsp_fifo_init.  What the arrays hold before the first transaction is
\* never looked at.
Init ==
  /\ state = "READ_DONE"
  /\ head = 0
  /\ buffer \in Frames
  /\ words = 0
  /\ wpc = "idle"
  /\ frame = buffer
  /\ written = 0
  /\ rpc = "idle"
  /\ edges = buffer
  /\ nread = 0
  /\ input = Empty

-----------------------------------------------------------------------------
(* Faulty variants of steps below, one mistake each, used by no action. *)

\* WriteStart that does not wait for the consumer.
WriteStartUnchecked ==
  /\ wpc = "idle"
  /\ frame' \in Frames
  /\ state' = "WRITE"
  /\ wpc' = "rewind"
  /\ written' = 0
  /\ UNCHANGED <<head, buffer, words, readerVars>>

\* WriteRewind that leaves head where the consumer left it.
WriteRewindMissing ==
  /\ wpc = "rewind"
  /\ wpc' = "write"
  /\ UNCHANGED <<state, head, buffer, words, frame, written, readerVars>>

\* WriteDone that sends the notification and forgets the state.
WriteDoneNotifyOnly ==
  /\ wpc = "write"
  /\ written = NumWrites
  /\ words' = words + 1
  /\ wpc' = "idle"
  /\ UNCHANGED <<state, head, buffer, frame, written, readerVars>>

\* WriteDone that stores the state and sends no notification.
WriteDoneSilent ==
  /\ wpc = "write"
  /\ written = NumWrites
  /\ state' = "WRITE_DONE"
  /\ wpc' = "idle"
  /\ UNCHANGED <<head, buffer, words, frame, written, readerVars>>

\* ReadDone before the last channel has been read.
ReadDoneEarly ==
  /\ rpc = "read"
  /\ nread + 1 >= NumWrites
  /\ state' = "READ_DONE"
  /\ input' = edges
  /\ rpc' = "idle"
  /\ UNCHANGED <<head, buffer, words, writerVars, edges, nread>>

-----------------------------------------------------------------------------
(* The producer: adsp_pipeline_source *)

\* adsp_fifo_write_start: spin until the last frame has been read.
WriteStart ==
  /\ wpc = "idle"
  /\ state = "READ_DONE"
  /\ frame' \in Frames
  /\ state' = "WRITE"
  /\ wpc' = "rewind"
  /\ written' = 0
  /\ UNCHANGED <<head, buffer, words, readerVars>>

WriteRewind ==
  /\ wpc = "rewind"
  /\ head' = 0
  /\ wpc' = "write"
  /\ UNCHANGED <<state, buffer, words, frame, written, readerVars>>

\* adsp_fifo_write of the next audio channel.
Write ==
  /\ wpc = "write"
  /\ written < NumWrites
  /\ buffer' = [buffer EXCEPT ![head] = frame[written]]
  /\ head' = head + 1
  /\ written' = written + 1
  /\ UNCHANGED <<state, words, wpc, frame, readerVars>>

\* adsp_fifo_write_done: the state first, then the notification.
WriteDone ==
  /\ wpc = "write"
  /\ written = NumWrites
  /\ state' = "WRITE_DONE"
  /\ wpc' = "notify"
  /\ UNCHANGED <<head, buffer, words, frame, written, readerVars>>

Notify ==
  /\ wpc = "notify"
  /\ words' = words + 1
  /\ wpc' = "idle"
  /\ UNCHANGED <<state, head, buffer, frame, written, readerVars>>

-----------------------------------------------------------------------------
(* The consumer: the select case of a DSP thread *)

\* adsp_fifo_read_start: take the word the select has seen, ...
TakeWord ==
  /\ rpc = "idle"
  /\ words > 0
  /\ words' = words - 1
  /\ rpc' = "spin"
  /\ UNCHANGED <<state, head, buffer, writerVars, edges, nread, input>>

\* ... then spin until the write is done.
ReadStart ==
  /\ rpc = "spin"
  /\ state = "WRITE_DONE"
  /\ state' = "READ"
  /\ rpc' = "rewind"
  /\ nread' = 0
  /\ UNCHANGED <<head, buffer, words, writerVars, edges, input>>

ReadRewind ==
  /\ rpc = "rewind"
  /\ head' = 0
  /\ rpc' = "read"
  /\ UNCHANGED <<state, buffer, words, writerVars, edges, nread, input>>

\* adsp_fifo_read of the next audio channel.
Read ==
  /\ rpc = "read"
  /\ nread < NumWrites
  /\ edges' = [edges EXCEPT ![nread] = buffer[head]]
  /\ head' = head + 1
  /\ nread' = nread + 1
  /\ UNCHANGED <<state, buffer, words, writerVars, rpc, input>>

\* adsp_fifo_read_done; the frame goes to process().
ReadDone ==
  /\ rpc = "read"
  /\ nread = NumWrites
  /\ state' = "READ_DONE"
  /\ input' = edges
  /\ rpc' = "idle"
  /\ UNCHANGED <<head, buffer, words, writerVars, edges, nread>>

-----------------------------------------------------------------------------
Producer == WriteStart \/ WriteRewind \/ Write \/ WriteDone \/ Notify
Consumer == TakeWord \/ ReadStart \/ ReadRewind \/ Read \/ ReadDone
Next == Producer \/ Consumer

Spec == Init /\ [][Next]_vars

\* A call of source that has begun goes on, and the DSP thread comes back to
\* its select; nothing makes the application send another frame.
Fairness == WF_vars(Producer /\ wpc # "idle") /\ WF_vars(Consumer)

FairSpec == Spec /\ Fairness

-----------------------------------------------------------------------------
(* Properties *)

TypeOK ==
  /\ state \in {"READ", "WRITE", "READ_DONE", "WRITE_DONE"}
  /\ head \in 0 .. NumWrites
  /\ buffer \in Frames
  /\ words \in Nat
  /\ wpc \in {"idle", "rewind", "write", "notify"}
  /\ frame \in Frames
  /\ written \in 0 .. NumWrites
  /\ rpc \in {"idle", "spin", "rewind", "read"}
  /\ edges \in Frames
  /\ nread \in 0 .. NumWrites
  /\ input \in Frames \cup {Empty}

\* The two sides never use the buffer or its head at the same time.
NoBufferRace == ~(wpc \in {"rewind", "write"} /\ rpc \in {"rewind", "read"})

\* The notification of a frame is sent once and taken before the next one is
\* sent: the channel never holds two, and a word in it means a frame waits.
OneNotification ==
  /\ words <= 1
  /\ words = 1 => state = "WRITE_DONE" /\ rpc = "idle"

\* The frame a DSP thread reads is, channel by channel, the one that was
\* written, each written frame is read once, and the producer is held back
\* while one is waiting.
Waiting == IF state \in {"WRITE_DONE", "READ"} THEN frame ELSE Empty

Slot == INSTANCE FrameSlot WITH slot <- Waiting, taken <- input

ImplementsSlot == Slot!Spec

\* Every frame put in the FIFO is taken: no wake-up is lost between the state
\* and the notification.
FrameTaken == Slot!FairSpec
=============================================================================
