--------------------------- MODULE AdspFifoProofs ---------------------------
(***************************************************************************)
(* The FIFO for any number of audio channels and any samples: the two      *)
(* sides exclude each other and together implement a one-frame slot.       *)
(*                                                                         *)
(* The argument: the state names the only side that may touch head and     *)
(* buffer (PhaseInv); while it is WRITE_DONE the notification is in        *)
(* exactly one of three places, about to be sent, in the channel, or just  *)
(* taken (WordInv); and head follows the side that owns it (CopyInv), so   *)
(* that what is read at index i is what was written for channel i.         *)
(***************************************************************************)
EXTENDS AdspFifo, TLAPS

\* Who owns the buffer.
PhaseInv ==
  /\ state = "WRITE" <=> wpc \in {"rewind", "write"}
  /\ state = "READ" <=> rpc \in {"rewind", "read"}

\* Where the notification of a waiting frame is.
WordInv ==
  IF state = "WRITE_DONE"
    THEN \/ wpc = "notify" /\ words = 0 /\ rpc = "idle"
         \/ wpc = "idle" /\ words = 1 /\ rpc = "idle"
         \/ wpc = "idle" /\ words = 0 /\ rpc = "spin"
    ELSE wpc # "notify" /\ words = 0 /\ rpc # "spin"

\* How far each copy is.
CopyInv ==
  /\ wpc = "rewind" => written = 0
  /\ wpc = "write" => head = written /\ \A i \in Slots : i < written => buffer[i] = frame[i]
  /\ state \in {"WRITE_DONE", "READ"} => \A i \in Slots : buffer[i] = frame[i]
  /\ rpc = "rewind" => nread = 0
  /\ rpc = "read" => head = nread /\ \A i \in Slots : i < nread => edges[i] = frame[i]

IInv == TypeOK /\ PhaseInv /\ WordInv /\ CopyInv

-----------------------------------------------------------------------------
LEMMA InitIInv == Init => IInv
  BY NumWritesAssumption
     DEF Init, IInv, TypeOK, PhaseInv, WordInv, CopyInv, Frames, Slots

LEMMA StepProducer == IInv /\ Producer => IInv'
<1> SUFFICES ASSUME IInv, Producer PROVE IInv'
  OBVIOUS
<1> USE NumWritesAssumption DEF IInv, TypeOK, PhaseInv, WordInv, CopyInv, readerVars
<1>1. CASE WriteStart
  BY <1>1 DEF WriteStart
<1>2. CASE WriteRewind
  BY <1>2 DEF WriteRewind, Slots
<1>3. CASE Write
  <2>1. written \in Slots /\ head = written /\ frame[written] \in Samples
    BY <1>3 DEF Write, Slots, Frames
  <2>2. buffer' = [buffer EXCEPT ![written] = frame[written]]
    BY <1>3, <2>1 DEF Write
  <2>3. buffer' \in Frames
    BY <2>1, <2>2 DEF Frames
  <2>4. \A i \in Slots : i < written' => buffer'[i] = frame[i]
    BY <1>3, <2>1, <2>2 DEF Write, Slots, Frames
  <2>5. QED BY <1>3, <2>1, <2>3, <2>4 DEF Write, Slots
<1>4. CASE WriteDone
  BY <1>4 DEF WriteDone, Slots
<1>5. CASE Notify
  BY <1>5 DEF Notify
<1>6. QED BY <1>1, <1>2, <1>3, <1>4, <1>5 DEF Producer

LEMMA StepConsumer == IInv /\ Consumer => IInv'
<1> SUFFICES ASSUME IInv, Consumer PROVE IInv'
  OBVIOUS
<1> USE NumWritesAssumption DEF IInv, TypeOK, PhaseInv, WordInv, CopyInv, writerVars
<1>1. CASE TakeWord
  BY <1>1 DEF TakeWord
<1>2. CASE ReadStart
  BY <1>2 DEF ReadStart
<1>3. CASE ReadRewind
  BY <1>3 DEF ReadRewind, Slots
<1>4. CASE Read
  <2>1. nread \in Slots /\ head = nread /\ buffer[nread] \in Samples
    BY <1>4 DEF Read, Slots, Frames
  <2>2. edges' = [edges EXCEPT ![nread] = buffer[nread]]
    BY <1>4, <2>1 DEF Read
  <2>3. edges' \in Frames
    BY <2>1, <2>2 DEF Frames
  <2>4. \A i \in Slots : i < nread' => edges'[i] = frame[i]
    BY <1>4, <2>1, <2>2 DEF Read, Slots, Frames
  <2>5. QED BY <1>4, <2>1, <2>3, <2>4 DEF Read, Slots
<1>5. CASE ReadDone
  BY <1>5 DEF ReadDone
<1>6. QED BY <1>1, <1>2, <1>3, <1>4, <1>5 DEF Consumer

LEMMA StepIInv == IInv /\ [Next]_vars => IInv'
<1>1. IInv /\ UNCHANGED vars => IInv'
  BY DEF IInv, TypeOK, PhaseInv, WordInv, CopyInv, vars, readerVars, writerVars
<1>2. QED BY <1>1, StepProducer, StepConsumer DEF Next

\* The variables keep their types; in particular head never leaves the buffer by
\* more than the end of a whole frame.
THEOREM TypeCorrect == Spec => []TypeOK
<1>1. IInv => TypeOK
  BY DEF IInv
<1>2. QED BY InitIInv, StepIInv, <1>1, PTL DEF Spec

\* Producer and consumer never touch the buffer at the same time.
THEOREM FifoExclusive == Spec => []NoBufferRace
<1>1. IInv => NoBufferRace
  BY DEF IInv, TypeOK, PhaseInv, NoBufferRace
<1>2. QED BY InitIInv, StepIInv, <1>1, PTL DEF Spec

\* The channel never holds a second notification, so sending one never blocks.
THEOREM NotifiedOnce == Spec => []OneNotification
<1>1. IInv => OneNotification
  BY DEF IInv, TypeOK, WordInv, OneNotification
<1>2. QED BY InitIInv, StepIInv, <1>1, PTL DEF Spec

-----------------------------------------------------------------------------
(* Refinement *)

LEMMA InitSlot == Init => Slot!Init
  BY DEF Init, Slot!Init, Waiting

LEMMA StepSlot == IInv /\ [Next]_vars => [Slot!Next]_<<Waiting, input>>
<1> SUFFICES ASSUME IInv, [Next]_vars
             PROVE  \/ Slot!Put \/ Slot!Take
                    \/ UNCHANGED <<Waiting, input>>
  BY DEF Slot!Next
<1> USE DEF IInv, TypeOK, PhaseInv, Waiting
<1>1. CASE WriteStart \/ WriteRewind \/ Write \/ Notify
  BY <1>1 DEF WriteStart, WriteRewind, Write, Notify, readerVars
\* The frame becomes visible when the state is stored, before the notification.
<1>2. CASE WriteDone
  BY <1>2 DEF WriteDone, Slot!Put, readerVars
<1>3. CASE TakeWord \/ ReadStart \/ ReadRewind \/ Read
  BY <1>3 DEF TakeWord, ReadStart, ReadRewind, Read, writerVars
<1>4. CASE ReadDone
  <2>1. edges = frame
    <3>1. \A i \in Slots : edges[i] = frame[i]
      BY <1>4 DEF ReadDone, CopyInv, Slots
    <3>2. QED BY <3>1 DEF Frames
  <2>2. Waiting # Empty
    BY <1>4, EmptyAssumption DEF ReadDone, Frames, Slots
  <2>3. Slot!Take
    BY <1>4, <2>1, <2>2 DEF ReadDone, Slot!Take, writerVars
  <2>4. QED BY <2>3
<1>5. CASE UNCHANGED vars
  BY <1>5 DEF vars, readerVars, writerVars
<1>6. QED BY <1>1, <1>2, <1>3, <1>4, <1>5 DEF Next, Producer, Consumer

\* Each frame written is read once, whole and in order, for any number of
\* channels: the FIFO implements the one-frame slot.
THEOREM FifoImplementsSlot == Spec => ImplementsSlot
<1>1. IInv /\ [Next]_vars => [Slot!Next]_<<Waiting, input>>
  BY StepSlot
<1>2. QED BY InitIInv, StepIInv, InitSlot, <1>1, PTL DEF Spec, ImplementsSlot, Slot!Spec
=============================================================================
