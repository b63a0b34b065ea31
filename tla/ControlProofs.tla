----------------------------- MODULE ControlProofs -----------------------------
(***************************************************************************)
(* Safety of the control interface for any number of controllers, any      *)
(* config struct and any set of commands, and of tuning, from end to end,  *)
(* for any stage, any order of parameters and any length of the server's   *)
(* queue.                                                                  *)
(*                                                                         *)
(* The control interface: the lock makes the control threads exclude each  *)
(* other (MutexInv); a control thread copies only in none_pending or, for  *)
(* its own read, in read_updated, and the DSP thread only in the two       *)
(* pending states (HandOverInv), so no copies meet.  Whoever holds the     *)
(* lock is the only one to leave none_pending or read_updated, and the DSP *)
(* thread the only one to leave the pending states.                        *)
(*                                                                         *)
(* The refinement: a command changes the mailbox in one step, where its    *)
(* memcpy begins or where the handler sees it (MapInv); every other step   *)
(* of the two sides leaves the mailbox as it is.                           *)
(*                                                                         *)
(* Tuning: the only step of the host's side that reaches into the stage is *)
(* the control thread taking a message. That is a command's beginning, if  *)
(* every message waiting carries words that config can hold (HostTyped),   *)
(* which the refusal of malformed values sees to; so what is proved of the *)
(* control interface holds of tuning.                                      *)
(*                                                                         *)
(* That a read returns what was last written: a written word is followed   *)
(* from the queue through the memcpy into config (SentInv, CopyInv), and a *)
(* read, of which there is one at most, back to the queue of answers       *)
(* (WaitInv).                                                              *)
(***************************************************************************)
EXTENDS TuningHost, TLAPS

\* A controller has a command exactly while it is executing one, and copies in
\* the direction of that command.
RequestInv ==
  \A c \in Controllers :
    /\ pc[c] = "idle" <=> req[c] = NoRequest
    /\ pc[c] = "copyin" => req[c].op = "write"
    /\ pc[c] = "copyout" => req[c].op = "read"

\* Exactly the holder of the lock is between its acquisition and its release.
MutexInv == \A c \in Controllers : pc[c] \in Holding <=> lock = c

\* Who may copy, in each of the states of config_rw_state.
HandOverInv ==
  /\ \A c \in Controllers :
       /\ pc[c] = "copyin" => rw = "none_pending"
       /\ pc[c] = "copyout" => rw = "read_updated" /\ owner = c
  /\ dpc = "apply" => rw = "write_pending"
  /\ dpc = "publish" => rw = "read_pending"
  /\ dpc = "process" => dtodo = {}
  /\ dpc = "late" => dtodo \subseteq LateWords

\* Why config may differ from the stage's state: a write is being copied in,
\* or waits to be applied to that word.
ConfigInv ==
  \A w \in Words \ Dynamic :
    \/ config[w] = state[w]
    \/ \E c \in Controllers : pc[c] = "copyin"
    \/ rw = "write_pending" /\ (dpc = "apply" => w \in dtodo)

\* Why the running settings may differ from the stage's state: as above, or
\* the handler has still to read the word although it has cleared the state.
LiveInv ==
  \A w \in Words \ Dynamic :
    \/ live[w] = state[w]
    \/ \E c \in Controllers : pc[c] = "copyin"
    \/ rw = "write_pending" /\ (dpc = "apply" => w \in dtodo \cup LateWords)
    \/ dpc = "late" /\ w \in dtodo

IInv == TypeOK /\ RequestInv /\ MutexInv /\ HandOverInv /\ ConfigInv /\ LiveInv

\* While a read is under way its caller is still there, with the same command,
\* unless some read has been given up.
ReaderInv ==
  ~abandoned /\ rw \in {"read_pending", "read_updated"} =>
    /\ owner \in Controllers
    /\ req[owner] = [op |-> "read", cmd |-> cmdId]
    /\ pc[owner] \in {"unlock_busy", "call", "held", "copyout"}

-----------------------------------------------------------------------------
(* Type correctness *)

LEMMA RequestTypes ==
  /\ NoRequest \in Requests
  /\ \A k \in Commands : [op |-> "read", cmd |-> k] \in Requests
  /\ \A k \in Commands : [op |-> "write", cmd |-> k] \in Requests
  /\ \A r \in Requests :
       r.op \in {"read", "write"} =>
         /\ r.cmd \in Commands
         /\ CmdWords[r.cmd] \in SUBSET Words
<1>1. ASSUME NEW r \in Requests, r.op \in {"read", "write"} PROVE r.cmd \in Commands
  BY <1>1 DEF Requests, NoRequest
<1>2. \A k \in Commands : CmdWords[k] \in SUBSET Words
  BY CmdWordsAssumption
<1>3. QED BY <1>1, <1>2 DEF Requests

LEMMA InitTypeOK == Init => TypeOK /\ RequestInv
  BY RequestTypes DEF Init, TypeOK, RequestInv, Holding

LEMMA StepTypeOK == TypeOK /\ RequestInv /\ [Next]_vars => TypeOK'
<1> SUFFICES ASSUME TypeOK, RequestInv, [Next]_vars PROVE TypeOK'
  OBVIOUS
<1> USE RequestTypes, WordsAssumption DEF TypeOK, Holding
<1>1. ASSUME NEW c \in Controllers,
             IssueWrite(c) \/ IssueRead(c) \/ Abandon(c)
      PROVE TypeOK'
  <2>1. CASE IssueWrite(c)
    BY <2>1 DEF IssueWrite, dspVars
  <2>2. CASE IssueRead(c)
    BY <2>2 DEF IssueRead, dspVars
  <2>3. CASE Abandon(c)
    BY <2>3 DEF Abandon, dspVars
  <2>4. QED BY <1>1, <2>1, <2>2, <2>3
<1>2. ASSUME NEW c \in Controllers, Call(c) PROVE TypeOK'
  <2>1. CASE Acquire(c) \/ Refuse(c)
    BY <2>1 DEF Acquire, Refuse, dspVars
  <2>2. CASE BeginWrite(c)
    BY <2>2 DEF BeginWrite, dspVars
  <2>3. CASE CopyIn(c)
    <3>1. PICK w \in todo[c] :
            /\ config' = [config EXCEPT ![w] = buf[c][w]]
            /\ todo' = [todo EXCEPT ![c] = todo[c] \ {w}]
      BY <2>3 DEF CopyIn
    <3>2. /\ w \in Words
          /\ todo[c] \ {w} \in SUBSET Words
          /\ buf[c][w] \in Values
      BY <3>1
    <3>3. config' \in [Words -> Values] /\ todo' \in [Controllers -> SUBSET Words]
      BY <3>1, <3>2
    <3>4. QED BY <2>3, <3>3 DEF CopyIn, dspVars
  <2>4. CASE EndWrite(c) \/ RequestRead(c)
    BY <2>4 DEF EndWrite, RequestRead, RequestInv, dspVars
  <2>5. CASE BeginRead(c)
    BY <2>5 DEF BeginRead, dspVars
  <2>6. CASE CopyOut(c)
    <3>1. PICK w \in todo[c] :
            /\ buf' = [buf EXCEPT ![c] = [buf[c] EXCEPT ![w] = config[w]]]
            /\ todo' = [todo EXCEPT ![c] = todo[c] \ {w}]
      BY <2>6 DEF CopyOut
    <3>2. /\ w \in Words
          /\ todo[c] \ {w} \in SUBSET Words
          /\ [buf[c] EXCEPT ![w] = config[w]] \in [Words -> Values]
      BY <3>1
    <3>3. buf' \in [Controllers -> [Words -> Values]]
      BY <3>1, <3>2
    <3>4. todo' \in [Controllers -> SUBSET Words]
      BY <3>1, <3>2
    <3>5. QED BY <2>6, <3>3, <3>4 DEF CopyOut, dspVars
  <2>7. CASE EndRead(c)
    BY <2>7 DEF EndRead, dspVars
  <2>8. CASE Release(c)
    BY <2>8 DEF Release, dspVars
  <2>9. QED
    BY <1>2, <2>1, <2>2, <2>3, <2>4, <2>5, <2>6, <2>7, <2>8 DEF Call
<1>3. ASSUME Handle PROVE TypeOK'
  <2>1. CASE BeginApply \/ EndApply \/ BeginPublish \/ EndPublish
    BY <2>1 DEF BeginApply, EndApply, BeginPublish, EndPublish, controllerVars
  <2>2. CASE ApplyWord
    <3>1. PICK w \in dtodo :
            /\ state' = [state EXCEPT ![w] = IF dpc = "apply" THEN config[w] ELSE @]
            /\ live' = [live EXCEPT ![w] = IF dpc = "apply" /\ w \in LateWords THEN @ ELSE config[w]]
            /\ dtodo' = dtodo \ {w}
      BY <2>2 DEF ApplyWord
    <3>2. w \in Words /\ config[w] \in Values /\ state[w] \in Values /\ live[w] \in Values
      OBVIOUS
    <3>3. state' \in [Words -> Values] /\ live' \in [Words -> Values] /\ dtodo' \in SUBSET Words
      BY <3>1, <3>2
    <3>4. UNCHANGED <<config, rw, controllerVars, dpc>>
      BY <2>2 DEF ApplyWord
    <3>5. QED BY <3>3, <3>4 DEF controllerVars
  <2>3. CASE PublishWord
    BY <2>3 DEF PublishWord, controllerVars
  <2>4. QED BY <1>3, <2>1, <2>2, <2>3 DEF Handle
<1>4. CASE ProcessFrame
  BY <1>4 DEF ProcessFrame, controllerVars
<1>5. CASE UNCHANGED vars
  BY <1>5 DEF vars, controllerVars, dspVars
<1>6. QED BY <1>1, <1>2, <1>3, <1>4, <1>5 DEF Next

LEMMA StepRequestInv == TypeOK /\ RequestInv /\ [Next]_vars => RequestInv'
<1> SUFFICES ASSUME TypeOK, RequestInv, [Next]_vars PROVE RequestInv'
  OBVIOUS
<1> USE DEF TypeOK, RequestInv, NoRequest
<1>1. ASSUME NEW c \in Controllers, IssueWrite(c) \/ IssueRead(c) \/ Abandon(c)
      PROVE RequestInv'
  BY <1>1 DEF IssueWrite, IssueRead, Abandon
<1>2. ASSUME NEW c \in Controllers, Call(c) PROVE RequestInv'
  <2>1. CASE Acquire(c) \/ BeginWrite(c) \/ CopyIn(c) \/ EndWrite(c) \/ RequestRead(c)
    BY <2>1 DEF Acquire, BeginWrite, CopyIn, EndWrite, RequestRead
  <2>2. CASE BeginRead(c) \/ CopyOut(c) \/ EndRead(c) \/ Refuse(c) \/ Release(c)
    BY <2>2 DEF BeginRead, CopyOut, EndRead, Refuse, Release
  <2>3. QED BY <1>2, <2>1, <2>2 DEF Call
<1>3. CASE Handle
  BY <1>3 DEF Handle, BeginApply, ApplyWord, EndApply,
              BeginPublish, PublishWord, EndPublish, controllerVars
<1>4. CASE ProcessFrame \/ UNCHANGED vars
  BY <1>4 DEF ProcessFrame, vars, controllerVars
<1>5. QED BY <1>1, <1>2, <1>3, <1>4 DEF Next

\* Every variable always has its type: in particular current_controller and
\* the lock only ever name a controller or nobody.
THEOREM TypeCorrect == Spec => []TypeOK
<1>1. Init => TypeOK /\ RequestInv
  BY InitTypeOK
<1>2. TypeOK /\ RequestInv /\ [Next]_vars => (TypeOK /\ RequestInv)'
  BY StepTypeOK, StepRequestInv
<1>3. QED BY <1>1, <1>2, PTL DEF Spec

-----------------------------------------------------------------------------
(* Who holds the lock, and who may touch config *)

LEMMA StepMutexInv == TypeOK /\ MutexInv /\ [Next]_vars => MutexInv'
<1> SUFFICES ASSUME TypeOK, MutexInv, [Next]_vars PROVE MutexInv'
  OBVIOUS
<1> USE NobodyAssumption DEF TypeOK, MutexInv, Holding
<1>1. ASSUME NEW c \in Controllers, IssueWrite(c) \/ IssueRead(c) \/ Abandon(c)
      PROVE MutexInv'
  BY <1>1 DEF IssueWrite, IssueRead, Abandon
<1>2. ASSUME NEW c \in Controllers, Call(c) PROVE MutexInv'
  <2>1. CASE Acquire(c) \/ BeginWrite(c) \/ CopyIn(c) \/ EndWrite(c) \/ RequestRead(c)
    BY <2>1 DEF Acquire, BeginWrite, CopyIn, EndWrite, RequestRead
  <2>2. CASE BeginRead(c) \/ CopyOut(c) \/ EndRead(c) \/ Refuse(c) \/ Release(c)
    BY <2>2 DEF BeginRead, CopyOut, EndRead, Refuse, Release
  <2>3. QED BY <1>2, <2>1, <2>2 DEF Call
<1>3. CASE Handle
  BY <1>3 DEF Handle, BeginApply, ApplyWord, EndApply,
              BeginPublish, PublishWord, EndPublish, controllerVars
<1>4. CASE ProcessFrame \/ UNCHANGED vars
  BY <1>4 DEF ProcessFrame, vars, controllerVars
<1>5. QED BY <1>1, <1>2, <1>3, <1>4 DEF Next

LEMMA StepHandOverInv ==
  TypeOK /\ MutexInv /\ HandOverInv /\ [Next]_vars => HandOverInv'
<1> SUFFICES ASSUME TypeOK, MutexInv, HandOverInv, [Next]_vars PROVE HandOverInv'
  OBVIOUS
<1> USE DEF TypeOK, HandOverInv
<1>1. ASSUME NEW c \in Controllers, IssueWrite(c) \/ IssueRead(c) \/ Abandon(c)
      PROVE HandOverInv'
  BY <1>1 DEF IssueWrite, IssueRead, Abandon, dspVars
<1>2. ASSUME NEW c \in Controllers, Call(c) PROVE HandOverInv'
  \* A copy may begin or end only by the holder of the lock: no one else copies.
  <2>1. pc[c] \in Holding => \A d \in Controllers \ {c} : pc[d] \notin Holding
    BY DEF MutexInv
  <2>2. CASE Acquire(c) \/ BeginWrite(c) \/ CopyIn(c) \/ EndWrite(c) \/ RequestRead(c)
    BY <2>1, <2>2 DEF Acquire, BeginWrite, CopyIn, EndWrite, RequestRead, Holding, dspVars
  <2>3. CASE BeginRead(c) \/ CopyOut(c) \/ EndRead(c) \/ Refuse(c) \/ Release(c)
    BY <2>1, <2>3 DEF BeginRead, CopyOut, EndRead, Refuse, Release, Holding, dspVars
  <2>4. QED BY <1>2, <2>2, <2>3 DEF Call
<1>3. CASE Handle
  BY <1>3 DEF Handle, BeginApply, ApplyWord, EndApply,
              BeginPublish, PublishWord, EndPublish, controllerVars
<1>4. CASE ProcessFrame \/ UNCHANGED vars
  BY <1>4 DEF ProcessFrame, vars, controllerVars, dspVars
<1>5. QED BY <1>1, <1>2, <1>3, <1>4 DEF Next

\* The DSP thread's copies and a control thread's memcpy never overlap, for any
\* stage whose handler has read config before it clears config_rw_state.
THEOREM ConfigExclusive == ASSUME LateWords = {} PROVE Spec => []NoConfigRace
<1>1. Init => TypeOK /\ RequestInv /\ MutexInv /\ HandOverInv
  BY InitTypeOK, NobodyAssumption DEF Init, MutexInv, HandOverInv, Holding
<1>2. TypeOK /\ RequestInv /\ MutexInv /\ HandOverInv /\ [Next]_vars
        => (TypeOK /\ RequestInv /\ MutexInv /\ HandOverInv)'
  BY StepTypeOK, StepRequestInv, StepMutexInv, StepHandOverInv
<1>3. TypeOK /\ HandOverInv => NoConfigRace
  BY DEF TypeOK, HandOverInv, NoConfigRace
<1>4. QED BY <1>1, <1>2, <1>3, PTL DEF Spec

-----------------------------------------------------------------------------
(* No write is lost, torn or applied in part *)

LEMMA StepSettledInv == IInv /\ [Next]_vars => ConfigInv' /\ LiveInv'
<1> SUFFICES ASSUME IInv, [Next]_vars PROVE ConfigInv' /\ LiveInv'
  OBVIOUS
<1> USE DEF IInv, ConfigInv, LiveInv
<1>1. ASSUME NEW c \in Controllers, IssueWrite(c) \/ IssueRead(c) \/ Abandon(c)
      PROVE ConfigInv' /\ LiveInv'
  BY <1>1 DEF IssueWrite, IssueRead, Abandon, dspVars, TypeOK
<1>2. ASSUME NEW c \in Controllers, Call(c) PROVE ConfigInv' /\ LiveInv'
  <2> USE DEF TypeOK, HandOverInv, dspVars
  <2>1. CASE Acquire(c) \/ RequestRead(c) \/ BeginRead(c) \/ CopyOut(c)
             \/ EndRead(c) \/ Refuse(c) \/ Release(c)
    BY <2>1 DEF Acquire, RequestRead, BeginRead, CopyOut, EndRead, Refuse, Release
  <2>2. CASE BeginWrite(c) \/ CopyIn(c)
    \* c is copying afterwards: the second disjunct.
    <3>1. pc'[c] = "copyin"
      BY <2>2 DEF BeginWrite, CopyIn
    <3>2. QED BY <3>1
  <2>3. CASE EndWrite(c)
    \* The DSP thread is outside "apply", because nothing was pending.
    <3>1. rw' = "write_pending" /\ dpc' # "apply"
      BY <2>3 DEF EndWrite
    <3>2. QED BY <3>1
  <2>4. QED BY <1>2, <2>1, <2>2, <2>3 DEF Call
<1>3. CASE Handle
  <2> USE DEF TypeOK, HandOverInv, controllerVars
  <2>1. CASE BeginApply
    BY <2>1 DEF BeginApply
  <2>2. CASE ApplyWord /\ dpc = "apply"
    <3>1. PICK w \in dtodo :
            /\ state' = [state EXCEPT ![w] = config[w]]
            /\ live' = [live EXCEPT ![w] = IF w \in LateWords THEN @ ELSE config[w]]
            /\ dtodo' = dtodo \ {w}
      BY <2>2 DEF ApplyWord
    <3>2. UNCHANGED <<config, rw, pc, dpc>> /\ dpc = "apply" /\ rw = "write_pending"
      BY <2>2 DEF ApplyWord
    <3>3. ConfigInv'
      BY <3>1, <3>2
    <3>4. LiveInv'
      BY <3>1, <3>2
    <3>5. QED BY <3>3, <3>4
  <2>3. CASE EndApply
    BY <2>3 DEF EndApply
  <2>4. CASE ApplyWord /\ dpc = "late"
    <3>1. PICK w \in dtodo :
            /\ live' = [live EXCEPT ![w] = config[w]]
            /\ dtodo' = dtodo \ {w}
      BY <2>4 DEF ApplyWord
    <3>2. UNCHANGED <<config, rw, pc, dpc>> /\ dpc = "late" /\ \A v \in Words : state'[v] = state[v]
      BY <2>4 DEF ApplyWord
    <3>3. QED BY <3>1, <3>2
  <2>5. CASE BeginPublish \/ EndPublish
    BY <2>5 DEF BeginPublish, EndPublish
  <2>6. CASE PublishWord
    <3>1. PICK w \in dtodo : config' = [config EXCEPT ![w] = state[w]]
      BY <2>6 DEF PublishWord
    <3>2. UNCHANGED <<rw, pc, dpc, state, live>> /\ dpc = "publish" /\ rw = "read_pending"
      BY <2>6 DEF PublishWord
    <3>3. QED BY <3>1, <3>2
  <2>7. QED BY <1>3, <2>1, <2>2, <2>3, <2>4, <2>5, <2>6 DEF Handle, ApplyWord
<1>4. CASE ProcessFrame
  BY <1>4 DEF ProcessFrame, controllerVars, TypeOK
<1>5. CASE UNCHANGED vars
  BY <1>5 DEF vars, controllerVars, dspVars
<1>6. QED BY <1>1, <1>2, <1>3, <1>4, <1>5 DEF Next

LEMMA InitIInv == Init => IInv
  BY InitTypeOK, NobodyAssumption
     DEF Init, IInv, MutexInv, HandOverInv, ConfigInv, LiveInv, Holding

LEMMA StepIInv == IInv /\ [Next]_vars => IInv'
  BY StepTypeOK, StepRequestInv, StepMutexInv, StepHandOverInv, StepSettledInv DEF IInv

\* Once nothing is pending the stage runs with exactly what was written to it,
\* for every stage, those with words read late included.
THEOREM SettledCorrect == Spec => []SettledAgreement
<1>1. IInv => SettledAgreement
  BY DEF IInv, TypeOK, HandOverInv, ConfigInv, LiveInv, SettledAgreement
<1>2. QED BY InitIInv, StepIInv, <1>1, PTL DEF Spec

-----------------------------------------------------------------------------
(* The assertion on cmd_id *)

LEMMA StepReaderInv == IInv /\ ReaderInv /\ [Next]_vars => ReaderInv'
<1> SUFFICES ASSUME IInv, ReaderInv, [Next]_vars PROVE ReaderInv'
  OBVIOUS
<1> USE DEF IInv, TypeOK, ReaderInv
<1>1. ASSUME NEW c \in Controllers, IssueWrite(c) \/ IssueRead(c) \/ Abandon(c)
      PROVE ReaderInv'
  <2>1. CASE IssueWrite(c)
    BY <2>1 DEF IssueWrite
  <2>2. CASE IssueRead(c)
    BY <2>2 DEF IssueRead
  <2>3. CASE Abandon(c)
    BY <2>3 DEF Abandon
  <2>4. QED BY <1>1, <2>1, <2>2, <2>3
<1>2. ASSUME NEW c \in Controllers, Call(c) PROVE ReaderInv'
  <2>1. CASE Acquire(c) \/ BeginWrite(c) \/ CopyIn(c) \/ EndWrite(c) \/ EndRead(c)
    BY <2>1 DEF Acquire, BeginWrite, CopyIn, EndWrite, EndRead, HandOverInv
  <2>2. CASE BeginRead(c) \/ CopyOut(c) \/ Refuse(c) \/ Release(c)
    BY <2>2 DEF BeginRead, CopyOut, Refuse, Release
  <2>3. CASE RequestRead(c)
    <3>1. req[c] = [op |-> "read", cmd |-> req[c].cmd]
      BY <2>3 DEF RequestRead, Requests, NoRequest
    <3>2. QED BY <2>3, <3>1 DEF RequestRead
  <2>4. QED BY <1>2, <2>1, <2>2, <2>3 DEF Call
<1>3. CASE Handle
  BY <1>3 DEF Handle, BeginApply, ApplyWord, EndApply,
              BeginPublish, PublishWord, EndPublish, controllerVars, HandOverInv
<1>4. CASE ProcessFrame \/ UNCHANGED vars
  BY <1>4 DEF ProcessFrame, vars, controllerVars
<1>5. QED BY <1>1, <1>2, <1>3, <1>4 DEF Next

\* The only step to the failed assertion is a controller finding the answer to
\* its own read under another cmd_id, which ReaderInv excludes.
LEMMA StepNoTrap == IInv /\ ReaderInv /\ NoTrap /\ [Next]_vars => NoTrap'
<1> SUFFICES ASSUME IInv, ReaderInv, NoTrap, [Next]_vars PROVE NoTrap'
  OBVIOUS
<1> SUFFICES ASSUME ~abandoned' PROVE \A c \in Controllers : pc'[c] # "trap"
  BY DEF NoTrap
<1>0. ~abandoned
  BY DEF Next, Handle, Call, IssueWrite, IssueRead, Abandon, Acquire, BeginWrite, CopyIn,
         EndWrite, RequestRead, BeginRead, CopyOut, EndRead, Refuse, Release,
         BeginApply, ApplyWord, EndApply,
         BeginPublish, PublishWord, EndPublish, ProcessFrame, vars, controllerVars
<1> USE <1>0 DEF IInv, TypeOK, NoTrap
<1>1. ASSUME NEW c \in Controllers, IssueWrite(c) \/ IssueRead(c) \/ Abandon(c)
      PROVE \A d \in Controllers : pc'[d] # "trap"
  BY <1>1 DEF IssueWrite, IssueRead, Abandon
<1>2. ASSUME NEW c \in Controllers, Call(c)
      PROVE \A d \in Controllers : pc'[d] # "trap"
  <2>1. CASE BeginRead(c)
    <3>1. cmdId = req[c].cmd
      BY <2>1 DEF BeginRead, ReaderInv
    <3>2. QED BY <2>1, <3>1 DEF BeginRead
  <2>2. CASE ~BeginRead(c)
    BY <1>2, <2>2 DEF Call, Acquire, BeginWrite, CopyIn, EndWrite, RequestRead,
                      CopyOut, EndRead, Refuse, Release
  <2>3. QED BY <2>1, <2>2
<1>3. CASE Handle
  BY <1>3 DEF Handle, BeginApply, ApplyWord, EndApply,
              BeginPublish, PublishWord, EndPublish, controllerVars
<1>4. CASE ProcessFrame \/ UNCHANGED vars
  BY <1>4 DEF ProcessFrame, vars, controllerVars
<1>5. QED BY <1>1, <1>2, <1>3, <1>4 DEF Next

\* Until some application gives up a read the stage was asked for, the assertion
\* that the answer is to the same cmd_id holds, whatever other controllers do.
THEOREM NeverTraps == Spec => []NoTrap
<1>1. Init => IInv /\ ReaderInv /\ NoTrap
  BY InitIInv DEF Init, ReaderInv, NoTrap
<1>2. IInv /\ ReaderInv /\ NoTrap /\ [Next]_vars => (IInv /\ ReaderInv /\ NoTrap)'
  BY StepIInv, StepReaderInv, StepNoTrap
<1>3. QED BY <1>1, <1>2, PTL DEF Spec
-----------------------------------------------------------------------------
(* Commands are executed one at a time and whole: the refinement *)

\* Whose the pending or answered read is; no one's, when there is none.
OwnerInv ==
  /\ rw \in {"none_pending", "write_pending"} => owner = Nobody
  /\ rw \in {"read_pending", "read_updated"} => owner \in Controllers

\* Without words read late the handler makes both its copies of a write at once.
OneCopyInv == dpc # "late" /\ live = state

RefInv == IInv /\ OwnerInv /\ OneCopyInv

LEMMA StepOwnerInv == IInv /\ OwnerInv /\ [Next]_vars => OwnerInv'
<1> SUFFICES ASSUME IInv, OwnerInv, [Next]_vars PROVE OwnerInv'
  OBVIOUS
<1> USE DEF IInv, TypeOK, OwnerInv
<1>1. ASSUME NEW c \in Controllers, IssueWrite(c) \/ IssueRead(c) \/ Abandon(c) PROVE OwnerInv'
  BY <1>1 DEF IssueWrite, IssueRead, Abandon
<1>2. ASSUME NEW c \in Controllers, Call(c) PROVE OwnerInv'
  <2>1. CASE Acquire(c) \/ BeginWrite(c) \/ CopyIn(c) \/ EndWrite(c) \/ RequestRead(c)
    BY <2>1 DEF Acquire, BeginWrite, CopyIn, EndWrite, RequestRead, HandOverInv
  <2>2. CASE BeginRead(c) \/ CopyOut(c) \/ EndRead(c) \/ Refuse(c) \/ Release(c)
    BY <2>2 DEF BeginRead, CopyOut, EndRead, Refuse, Release
  <2> QED BY <1>2, <2>1, <2>2 DEF Call
<1>3. CASE Handle
  BY <1>3 DEF Handle, BeginApply, ApplyWord, EndApply,
              BeginPublish, PublishWord, EndPublish, controllerVars, HandOverInv
<1>4. CASE ProcessFrame \/ UNCHANGED vars
  BY <1>4 DEF ProcessFrame, vars, controllerVars
<1> QED BY <1>1, <1>2, <1>3, <1>4 DEF Next

LEMMA StepOneCopyInv ==
  ASSUME LateWords = {}, IInv, OneCopyInv, [Next]_vars
  PROVE  OneCopyInv'
<1> USE DEF IInv, TypeOK, OneCopyInv
<1>1. ASSUME NEW c \in Controllers, IssueWrite(c) \/ IssueRead(c) \/ Abandon(c) \/ Call(c)
      PROVE OneCopyInv'
  BY <1>1 DEF IssueWrite, IssueRead, Abandon, Call, Acquire, BeginWrite, CopyIn, EndWrite,
              RequestRead, BeginRead, CopyOut, EndRead, Refuse, Release, dspVars
<1>2. CASE ApplyWord
  BY <1>2 DEF ApplyWord
<1>3. CASE BeginApply \/ EndApply \/ BeginPublish \/ PublishWord \/ EndPublish
  BY <1>3 DEF BeginApply, EndApply, BeginPublish, PublishWord, EndPublish
<1>4. CASE ProcessFrame \/ UNCHANGED vars
  BY <1>4 DEF ProcessFrame, vars, dspVars
<1> QED BY <1>1, <1>2, <1>3, <1>4 DEF Next, Handle

LEMMA StepRefInv == LateWords = {} /\ RefInv /\ [Next]_vars => RefInv'
BY StepIInv, StepOwnerInv, StepOneCopyInv DEF RefInv

-----------------------------------------------------------------------------
(* What the refinement mapping comes to in each state of the hand-over *)

\* While a write is copied in the controllers see it whole; the mailbox changes
\* hands where the handler or a read's memcpy begins.
MapInv ==
  /\ \A c \in Controllers : pc[c] = "copyin" =>
       /\ AbsSettings = [w \in Words |-> IF w \in todo[c] THEN buf[c][w] ELSE config[w]]
       /\ AbsBox = "write" /\ AbsAsker = owner
  /\ (\A c \in Controllers : pc[c] # "copyin") =>
       AbsSettings = [w \in Words |-> IF dpc = "publish" /\ w \in dtodo THEN state[w] ELSE config[w]]
  /\ (\A c \in Controllers : pc[c] \notin {"copyin", "copyout"}) =>
       /\ AbsBox = IF dpc = "apply" THEN "empty" ELSE IF dpc = "publish" THEN "answer"
                   ELSE [none_pending |-> "empty", write_pending |-> "write",
                         read_pending |-> "read", read_updated |-> "answer"][rw]
       /\ AbsAsker = owner
  /\ (\E c \in Controllers : pc[c] = "copyout") =>
       AbsBox = "empty" /\ AbsAsker = Nobody /\ AbsAskedCmd = NoCommand

LEMMA MapTrue == IInv => MapInv
<1> SUFFICES ASSUME IInv PROVE MapInv
  OBVIOUS
<1>1. ASSUME NEW c \in Controllers, pc[c] = "copyin"
      PROVE  /\ AbsSettings = [w \in Words |-> IF w \in todo[c] THEN buf[c][w] ELSE config[w]]
             /\ AbsBox = "write" /\ AbsAsker = owner
  <2>1. \A d \in Controllers \ {c} : pc[d] \notin {"copyin", "copyout"}
    BY <1>1, NobodyAssumption DEF IInv, MutexInv, Holding
  <2>2. \A w \in Words : Bringing(w) = IF w \in todo[c] THEN {c} ELSE {}
    BY <1>1, <2>1 DEF Bringing
  <2>3. \A w \in Words : w \in todo[c] => Bringer(w) = c
    BY <2>2 DEF Bringer
  <2>4. dpc # "publish"
    BY <1>1 DEF IInv, HandOverInv
  <2> QED BY <1>1, <2>1, <2>2, <2>3, <2>4 DEF AbsSettings, AbsBox, AbsAsker, Copying
<1>2. ASSUME \A c \in Controllers : pc[c] # "copyin"
      PROVE  AbsSettings = [w \in Words |-> IF dpc = "publish" /\ w \in dtodo THEN state[w] ELSE config[w]]
  BY <1>2 DEF AbsSettings, Bringing
<1>3. ASSUME \A c \in Controllers : pc[c] \notin {"copyin", "copyout"}
      PROVE  /\ AbsBox = IF dpc = "apply" THEN "empty" ELSE IF dpc = "publish" THEN "answer"
                         ELSE [none_pending |-> "empty", write_pending |-> "write",
                               read_pending |-> "read", read_updated |-> "answer"][rw]
             /\ AbsAsker = owner
  BY <1>3 DEF AbsBox, AbsAsker, Copying
<1>4. ASSUME NEW c \in Controllers, pc[c] = "copyout"
      PROVE  AbsBox = "empty" /\ AbsAsker = Nobody /\ AbsAskedCmd = NoCommand
  BY <1>4 DEF AbsBox, AbsAsker, AbsAskedCmd, Copying, IInv, HandOverInv
<1> QED BY <1>1, <1>2, <1>3, <1>4 DEF MapInv

\* The holder of the lock, when it does not copy, leaves no one copying.
LEMMA NoOneCopies ==
  ASSUME IInv, NEW c \in Controllers, pc[c] \in {"held", "unlock_ok", "unlock_busy"}
  PROVE  \A d \in Controllers : pc[d] \notin {"copyin", "copyout"}
BY NobodyAssumption DEF IInv, MutexInv, Holding

\* A step that leaves both sides' copies, and who copies, as they are.
LEMMA MapUnmoved ==
  ASSUME MapInv, MapInv', UNCHANGED <<config, rw, owner, cmdId, dspVars>>,
         \A d \in Controllers :
           /\ pc[d] = "copyin" <=> pc'[d] = "copyin"
           /\ pc[d] = "copyout" <=> pc'[d] = "copyout"
           /\ pc[d] = "copyin" => todo'[d] = todo[d] /\ buf'[d] = buf[d]
  PROVE  UNCHANGED <<AbsSettings, AbsApplied, AbsBox, AbsAsker, AbsAskedCmd>>
<1>1. UNCHANGED AbsApplied
  BY DEF AbsApplied, dspVars
<1>2. UNCHANGED <<AbsBox, AbsAsker, AbsAskedCmd>>
  BY DEF AbsBox, AbsAsker, AbsAskedCmd, Copying, dspVars
<1>3. UNCHANGED AbsSettings
  BY DEF MapInv, dspVars
<1> QED BY <1>1, <1>2, <1>3

LEMMA IssueMaps ==
  ASSUME RefInv, MapInv, MapInv', NEW c \in Controllers, IssueWrite(c) \/ IssueRead(c) \/ Abandon(c)
  PROVE  Mailbox!WantWrite(c) \/ Mailbox!WantRead(c) \/ Mailbox!GiveUp(c)
<1> USE DEF RefInv, IInv, TypeOK
<1>1. UNCHANGED <<AbsSettings, AbsApplied, AbsBox, AbsAsker, AbsAskedCmd>>
  BY MapUnmoved DEF IssueWrite, IssueRead, Abandon
<1>2. CASE IssueWrite(c)
  <2>1. PICK k \in Commands, p \in [Words -> Values] :
          req' = [req EXCEPT ![c] = [op |-> "write", cmd |-> k]] /\ buf' = [buf EXCEPT ![c] = p]
    BY <1>2 DEF IssueWrite
  <2>2. pc[c] = "idle" /\ pc' = [pc EXCEPT ![c] = "call"] /\ UNCHANGED <<config, todo>> /\ req[c] = NoRequest
    BY <1>2 DEF IssueWrite, RequestInv
  <2>3. AbsClient[c] = NoRequest /\ AbsClient' = [AbsClient EXCEPT ![c] = [op |-> "write", cmd |-> k]]
    BY <2>1, <2>2 DEF AbsClient
  <2>4. AbsBuf' = [AbsBuf EXCEPT ![c] = p]
    BY <2>1, <2>2 DEF AbsBuf
  <2> QED BY <1>1, <2>3, <2>4 DEF Mailbox!WantWrite, Mailbox!NoWant, NoRequest
<1>3. CASE IssueRead(c)
  <2>1. PICK k \in Commands : req' = [req EXCEPT ![c] = [op |-> "read", cmd |-> k]]
    BY <1>3 DEF IssueRead
  <2>2. pc[c] = "idle" /\ pc' = [pc EXCEPT ![c] = "call"] /\ UNCHANGED <<config, todo, buf>> /\ req[c] = NoRequest
    BY <1>3 DEF IssueRead, RequestInv
  <2>3. AbsClient[c] = NoRequest /\ AbsClient' = [AbsClient EXCEPT ![c] = [op |-> "read", cmd |-> k]]
    BY <2>1, <2>2 DEF AbsClient
  <2>4. AbsBuf' = AbsBuf
    BY <2>2 DEF AbsBuf
  <2> QED BY <1>1, <2>3, <2>4 DEF Mailbox!WantRead, Mailbox!NoWant, NoRequest
<1>4. CASE Abandon(c)
  <2>1. /\ pc[c] = "call" /\ req[c].op = "read" /\ pc' = [pc EXCEPT ![c] = "idle"]
        /\ req' = [req EXCEPT ![c] = NoRequest] /\ AllowAbandon /\ UNCHANGED <<config, todo, buf>>
    BY <1>4 DEF Abandon
  <2>2. AbsClient[c].op = "read" /\ AbsClient' = [AbsClient EXCEPT ![c] = NoRequest]
    BY <2>1 DEF AbsClient
  <2>3. AbsBuf' = AbsBuf
    BY <2>1 DEF AbsBuf
  <2> QED BY <1>1, <2>1, <2>2, <2>3 DEF Mailbox!GiveUp, Mailbox!NoWant, NoRequest
<1> QED BY <1>2, <1>3, <1>4

\* Taking and releasing the lock, and a call that returns BUSY, are not seen.
LEMMA LockMaps ==
  ASSUME RefInv, MapInv, MapInv', NEW c \in Controllers, Acquire(c) \/ Refuse(c) \/ Release(c)
  PROVE  UNCHANGED Mailbox!vars
<1> USE DEF RefInv, IInv, TypeOK
<1>1. UNCHANGED <<AbsSettings, AbsApplied, AbsBox, AbsAsker, AbsAskedCmd>>
  BY MapUnmoved DEF Acquire, Refuse, Release
<1>2. UNCHANGED AbsClient
  BY DEF Acquire, Refuse, Release, AbsClient
<1>3. UNCHANGED AbsBuf
  BY DEF Acquire, Refuse, Release, AbsBuf
<1> QED BY <1>1, <1>2, <1>3 DEF Mailbox!vars

\* A write is posted when its memcpy begins, which the stage cannot see yet.
LEMMA BeginWriteMaps ==
  ASSUME RefInv, MapInv, MapInv', NEW c \in Controllers, BeginWrite(c)
  PROVE  Mailbox!Post(c)
<1> USE DEF RefInv, IInv, TypeOK
<1>1. /\ pc[c] = "held" /\ req[c].op = "write" /\ rw = "none_pending"
      /\ todo' = [todo EXCEPT ![c] = CmdWords[req[c].cmd]]
      /\ pc' = [pc EXCEPT ![c] = "copyin"]
      /\ UNCHANGED <<config, rw, req, buf, owner, cmdId, dspVars>>
  BY DEF BeginWrite
<1>2. \A d \in Controllers : pc[d] \notin {"copyin", "copyout"}
  BY <1>1, NoOneCopies
<1>3. \A d \in Controllers : pc'[d] # "copyout"
  BY <1>1, <1>2
<1>4. dpc \notin {"apply", "publish"}
  BY <1>1 DEF HandOverInv
<1>5. AbsBox = "empty" /\ AbsBox' = "write" /\ UNCHANGED AbsAsker
  BY <1>1, <1>2, <1>4 DEF MapInv
<1>6. UNCHANGED AbsAskedCmd
  BY <1>1, <1>5 DEF AbsAskedCmd
<1>7. AbsSettings' = Mailbox!Overlay(AbsSettings, req[c].cmd, buf[c])
  <2>1. AbsSettings = config
    BY <1>2, <1>4 DEF MapInv
  <2>2. AbsSettings' = [w \in Words |-> IF w \in CmdWords[req[c].cmd] THEN buf[c][w] ELSE config[w]]
    BY <1>1 DEF MapInv
  <2> QED BY <2>1, <2>2 DEF Mailbox!Overlay
<1>8. UNCHANGED AbsApplied
  BY <1>1 DEF AbsApplied, dspVars
<1>9. AbsClient[c] = req[c] /\ AbsClient' = [AbsClient EXCEPT ![c] = NoRequest]
  BY <1>1 DEF AbsClient
<1>10. UNCHANGED AbsBuf /\ AbsBuf[c] = buf[c]
  BY <1>1, <1>2 DEF AbsBuf
<1> QED BY <1>1, <1>5, <1>6, <1>7, <1>8, <1>9, <1>10 DEF Mailbox!Post, Mailbox!NoWant, NoRequest

LEMMA CopyInMaps ==
  ASSUME RefInv, MapInv, MapInv', NEW c \in Controllers, CopyIn(c) \/ EndWrite(c)
  PROVE  UNCHANGED Mailbox!vars
<1> USE DEF RefInv, IInv, TypeOK
<1>1. pc[c] = "copyin" /\ rw = "none_pending" /\ UNCHANGED <<req, buf, owner, dspVars>>
  BY DEF CopyIn, EndWrite, HandOverInv
<1>2. \A d \in Controllers \ {c} : pc[d] \notin {"copyin", "copyout"}
  BY <1>1, NobodyAssumption DEF MutexInv, Holding
<1>3. dpc \notin {"apply", "publish"} /\ owner = Nobody
  BY <1>1 DEF HandOverInv, OwnerInv
<1>4. AbsBox = "write" /\ AbsAsker = Nobody
      /\ AbsSettings = [w \in Words |-> IF w \in todo[c] THEN buf[c][w] ELSE config[w]]
  BY <1>1, <1>3 DEF MapInv
<1>5. AbsApplied' = AbsApplied
  BY <1>1, <1>3 DEF AbsApplied, dspVars
<1>6. CASE CopyIn(c)
  <2>1. PICK v \in todo[c] :
          config' = [config EXCEPT ![v] = buf[c][v]] /\ todo' = [todo EXCEPT ![c] = @ \ {v}]
    BY <1>6 DEF CopyIn
  <2>2. UNCHANGED <<pc, cmdId>>
    BY <1>6 DEF CopyIn
  <2>3. AbsSettings' = AbsSettings /\ AbsBox' = "write" /\ AbsAsker' = Nobody
    BY <1>1, <1>3, <1>4, <2>1, <2>2 DEF MapInv
  <2>4. UNCHANGED <<AbsAskedCmd, AbsClient>>
    BY <1>1, <1>4, <2>2, <2>3 DEF AbsAskedCmd, AbsClient
  <2>5. UNCHANGED AbsBuf
    BY <1>1, <1>2, <2>2 DEF AbsBuf
  <2> QED BY <1>4, <1>5, <2>3, <2>4, <2>5 DEF Mailbox!vars
<1>7. CASE EndWrite(c)
  <2>1. todo[c] = {} /\ pc' = [pc EXCEPT ![c] = "unlock_ok"] /\ rw' = "write_pending" /\ UNCHANGED <<config, todo>>
    BY <1>7 DEF EndWrite
  <2>2. \A d \in Controllers : pc'[d] \notin {"copyin", "copyout"}
    BY <1>2, <2>1
  <2>3. AbsSettings' = AbsSettings /\ AbsBox' = "write" /\ AbsAsker' = Nobody
    BY <1>1, <1>3, <1>4, <2>1, <2>2 DEF MapInv, dspVars
  <2>4. AbsAskedCmd = NoCommand /\ AbsAskedCmd' = NoCommand
    BY <1>4, <2>3 DEF AbsAskedCmd
  <2>5. UNCHANGED AbsClient
    BY <1>1, <2>1 DEF AbsClient
  <2>6. UNCHANGED AbsBuf
    BY <1>1, <1>2, <2>1 DEF AbsBuf
  <2> QED BY <1>4, <1>5, <2>3, <2>4, <2>5, <2>6 DEF Mailbox!vars
<1> QED BY <1>6, <1>7

LEMMA RequestReadMaps ==
  ASSUME RefInv, MapInv, MapInv', NEW c \in Controllers, RequestRead(c)
  PROVE  Mailbox!Ask(c)
<1> USE DEF RefInv, IInv, TypeOK
<1>1. /\ pc[c] = "held" /\ req[c].op = "read" /\ rw = "none_pending"
      /\ cmdId' = req[c].cmd /\ rw' = "read_pending" /\ owner' = c
      /\ pc' = [pc EXCEPT ![c] = "unlock_busy"]
      /\ UNCHANGED <<config, req, buf, todo, dspVars>>
  BY DEF RequestRead
<1>2. \A d \in Controllers : pc[d] \notin {"copyin", "copyout"}
  BY <1>1, NoOneCopies
<1>3. \A d \in Controllers : pc'[d] \notin {"copyin", "copyout"}
  BY <1>1, <1>2
<1>4. dpc \notin {"apply", "publish"}
  BY <1>1 DEF HandOverInv
<1>5. AbsBox = "empty" /\ AbsBox' = "read" /\ AbsAsker' = c /\ AbsSettings' = AbsSettings
  BY <1>1, <1>2, <1>3, <1>4 DEF MapInv, dspVars
<1>6. AbsAskedCmd' = req[c].cmd
  BY <1>1, <1>5, NobodyAssumption DEF AbsAskedCmd
<1>7. UNCHANGED AbsApplied
  BY <1>1 DEF AbsApplied, dspVars
<1>8. AbsClient[c] = req[c] /\ UNCHANGED AbsClient
  BY <1>1 DEF AbsClient
<1>9. UNCHANGED AbsBuf
  BY <1>1, <1>2 DEF AbsBuf
<1> QED BY <1>1, <1>5, <1>6, <1>7, <1>8, <1>9 DEF Mailbox!Ask

\* An answer is collected when its memcpy begins; the assertion that fails instead
\* leaves everything where it is.
LEMMA BeginReadMaps ==
  ASSUME RefInv, MapInv, MapInv', NEW c \in Controllers, BeginRead(c)
  PROVE  Mailbox!Collect(c) \/ UNCHANGED Mailbox!vars
<1> USE DEF RefInv, IInv, TypeOK
<1>1. /\ pc[c] = "held" /\ req[c].op = "read" /\ rw = "read_updated" /\ owner = c
      /\ UNCHANGED <<config, rw, req, buf, cmdId, owner, dspVars>>
  BY DEF BeginRead
<1>2. \A d \in Controllers : pc[d] \notin {"copyin", "copyout"}
  BY <1>1, NoOneCopies
<1>3. dpc \notin {"apply", "publish"}
  BY <1>1 DEF HandOverInv
<1>4. UNCHANGED AbsApplied
  BY <1>1, <1>3 DEF AbsApplied, dspVars
<1>5. CASE cmdId # req[c].cmd
  <2>1. pc' = [pc EXCEPT ![c] = "trap"] /\ UNCHANGED todo
    BY <1>5 DEF BeginRead
  <2>2. UNCHANGED <<AbsSettings, AbsApplied, AbsBox, AbsAsker, AbsAskedCmd>>
    BY <1>1, <2>1, MapUnmoved
  <2>3. UNCHANGED AbsClient /\ UNCHANGED AbsBuf
    BY <1>1, <1>2, <2>1 DEF AbsClient, AbsBuf
  <2> QED BY <2>2, <2>3 DEF Mailbox!vars
<1>6. CASE cmdId = req[c].cmd
  <2>1. todo' = [todo EXCEPT ![c] = CmdWords[req[c].cmd]] /\ pc' = [pc EXCEPT ![c] = "copyout"]
    BY <1>6 DEF BeginRead
  <2>2. AbsBox = "answer" /\ AbsAsker = c /\ AbsSettings = config
    BY <1>1, <1>2, <1>3 DEF MapInv
  <2>3. AbsAskedCmd = req[c].cmd
    BY <1>1, <1>6, <2>2, NobodyAssumption DEF AbsAskedCmd
  <2>4. AbsBox' = "empty" /\ AbsAsker' = Nobody /\ AbsAskedCmd' = NoCommand
    BY <2>1 DEF MapInv
  <2>5. AbsSettings' = config
    BY <1>1, <1>2, <1>3, <2>1 DEF MapInv, dspVars
  <2>6. AbsClient[c] = [op |-> "read", cmd |-> req[c].cmd] /\ AbsClient' = [AbsClient EXCEPT ![c] = NoRequest]
    <3>1. req[c] = [op |-> "read", cmd |-> req[c].cmd]
      BY <1>1 DEF Requests, NoRequest
    <3> QED BY <1>1, <2>1, <3>1 DEF AbsClient
  <2>7. AbsBuf' = [AbsBuf EXCEPT ![c] = Mailbox!Overlay(AbsBuf[c], req[c].cmd, config)]
    BY <1>1, <1>2, <2>1 DEF AbsBuf, Mailbox!Overlay
  <2> QED BY <1>4, <2>2, <2>3, <2>4, <2>5, <2>6, <2>7 DEF Mailbox!Collect, Mailbox!NoWant, NoRequest
<1> QED BY <1>5, <1>6

LEMMA CopyOutMaps ==
  ASSUME RefInv, MapInv, MapInv', NEW c \in Controllers, CopyOut(c) \/ EndRead(c)
  PROVE  UNCHANGED Mailbox!vars
<1> USE DEF RefInv, IInv, TypeOK
<1>1. pc[c] = "copyout" /\ rw = "read_updated" /\ UNCHANGED <<config, req, cmdId, dspVars>>
  BY DEF CopyOut, EndRead, HandOverInv
<1>2. \A d \in Controllers \ {c} : pc[d] \notin {"copyin", "copyout"}
  BY <1>1, NobodyAssumption DEF MutexInv, Holding
<1>3. dpc \notin {"apply", "publish"}
  BY <1>1 DEF HandOverInv
<1>4. AbsBox = "empty" /\ AbsAsker = Nobody /\ AbsAskedCmd = NoCommand /\ AbsSettings = config
  BY <1>1, <1>2, <1>3 DEF MapInv
<1>5. UNCHANGED AbsApplied
  BY <1>1, <1>3 DEF AbsApplied, dspVars
<1>6. CASE CopyOut(c)
  <2>1. PICK v \in todo[c] :
          buf' = [buf EXCEPT ![c] = [@ EXCEPT ![v] = config[v]]] /\ todo' = [todo EXCEPT ![c] = @ \ {v}]
    BY <1>6 DEF CopyOut
  <2>2. UNCHANGED pc
    BY <1>6 DEF CopyOut
  <2>3. AbsBox' = "empty" /\ AbsAsker' = Nobody /\ AbsAskedCmd' = NoCommand /\ AbsSettings' = config
    BY <1>1, <1>2, <1>3, <2>2 DEF MapInv, dspVars
  <2>4. UNCHANGED AbsClient
    BY <1>1, <2>2 DEF AbsClient
  <2>5. UNCHANGED AbsBuf
    BY <1>1, <1>2, <2>1, <2>2 DEF AbsBuf
  <2> QED BY <1>4, <1>5, <2>3, <2>4, <2>5 DEF Mailbox!vars
<1>7. CASE EndRead(c)
  <2>1. todo[c] = {} /\ rw' = "none_pending" /\ owner' = Nobody
        /\ pc' = [pc EXCEPT ![c] = "unlock_ok"] /\ UNCHANGED <<buf, todo>>
    BY <1>7 DEF EndRead
  <2>2. \A d \in Controllers : pc'[d] \notin {"copyin", "copyout"}
    BY <1>2, <2>1
  <2>3. AbsBox' = "empty" /\ AbsAsker' = Nobody /\ AbsSettings' = config
    BY <1>1, <1>3, <2>1, <2>2 DEF MapInv, dspVars
  <2>4. AbsAskedCmd' = NoCommand
    BY <2>3 DEF AbsAskedCmd
  <2>5. UNCHANGED AbsClient
    BY <1>1, <2>1 DEF AbsClient
  <2>6. UNCHANGED AbsBuf
    BY <1>1, <1>2, <2>1 DEF AbsBuf
  <2> QED BY <1>4, <1>5, <2>3, <2>4, <2>5, <2>6 DEF Mailbox!vars
<1> QED BY <1>6, <1>7

\* Who copies and what they ask does not change in a step of the DSP thread.
LEMMA HandlerMapsClients ==
  ASSUME UNCHANGED controllerVars,
         \A w \in Words : config'[w] = config[w] \/ \A d \in Controllers : pc[d] # "copyout"
  PROVE  UNCHANGED <<AbsClient, AbsBuf>>
BY DEF controllerVars, AbsClient, AbsBuf

\* A write is applied when the handler sees it, and a read is answered.
LEMMA HandleMaps ==
  ASSUME LateWords = {}, RefInv, MapInv, MapInv', Handle
  PROVE  Mailbox!Apply \/ Mailbox!Answer \/ UNCHANGED Mailbox!vars
<1> USE DEF RefInv, IInv, TypeOK, OneCopyInv
<1>1. UNCHANGED controllerVars
  BY DEF Handle, BeginApply, ApplyWord, EndApply, BeginPublish, PublishWord, EndPublish
<1>2. CASE BeginApply \/ BeginPublish
  <2>1. dpc = "process" /\ rw \in {"write_pending", "read_pending"} /\ UNCHANGED <<config, rw, state, live>>
    BY <1>2 DEF BeginApply, BeginPublish
  <2>2. \A d \in Controllers : pc[d] \notin {"copyin", "copyout"} /\ pc'[d] \notin {"copyin", "copyout"}
    BY <1>1, <2>1 DEF HandOverInv, controllerVars
  <2>3. UNCHANGED <<AbsAsker, AbsAskedCmd, AbsClient, AbsBuf>>
    <3>1. UNCHANGED AbsAsker
      BY <1>1, <2>2 DEF MapInv, controllerVars
    <3> QED BY <1>1, <2>1, <3>1, HandlerMapsClients DEF AbsAskedCmd, controllerVars
  <2>4. AbsSettings = config /\ AbsApplied = live
    BY <2>1, <2>2 DEF MapInv, AbsApplied
  <2>5. CASE BeginApply
    <3>1. rw = "write_pending" /\ dpc' = "apply" /\ dtodo' = Words \ Dynamic
      BY <2>5 DEF BeginApply
    <3>2. AbsBox = "write" /\ AbsBox' = "empty" /\ AbsSettings' = config
      BY <2>1, <2>2, <3>1 DEF MapInv
    <3>3. AbsApplied' = [w \in Words |-> IF w \in Dynamic THEN live[w] ELSE config[w]]
      BY <2>1, <3>1 DEF AbsApplied
    <3> QED BY <2>3, <2>4, <3>2, <3>3 DEF Mailbox!Apply
  <2>6. CASE BeginPublish
    <3>1. rw = "read_pending" /\ dpc' = "publish" /\ dtodo' = Words
      BY <2>6 DEF BeginPublish
    <3>2. AbsBox = "read" /\ AbsBox' = "answer" /\ AbsSettings' = state
      BY <2>1, <2>2, <3>1 DEF MapInv
    <3>3. AbsApplied' = live
      BY <2>1, <3>1 DEF AbsApplied
    <3> QED BY <2>3, <2>4, <3>2, <3>3 DEF Mailbox!Answer
  <2> QED BY <1>2, <2>5, <2>6
<1>3. CASE ApplyWord \/ EndApply
  <2>1. dpc = "apply" /\ rw = "write_pending" /\ UNCHANGED config
    BY <1>3 DEF ApplyWord, EndApply, HandOverInv
  <2>2. \A d \in Controllers : pc[d] \notin {"copyin", "copyout"} /\ pc'[d] \notin {"copyin", "copyout"}
    BY <1>1, <2>1 DEF HandOverInv, controllerVars
  <2>3. AbsBox = "empty" /\ AbsSettings = config
    BY <2>1, <2>2 DEF MapInv
  <2>4. UNCHANGED <<AbsAsker, AbsAskedCmd, AbsClient, AbsBuf>>
    <3>1. UNCHANGED AbsAsker
      BY <1>1, <2>2 DEF MapInv, controllerVars
    <3> QED BY <1>1, <2>1, <3>1, HandlerMapsClients DEF AbsAskedCmd, controllerVars
  <2>5. CASE ApplyWord
    <3>1. PICK v \in dtodo : live' = [live EXCEPT ![v] = config[v]] /\ dtodo' = dtodo \ {v}
      BY <2>1, <2>5 DEF ApplyWord
    <3>2. UNCHANGED <<rw, dpc>>
      BY <2>5 DEF ApplyWord
    <3>3. UNCHANGED AbsApplied
      BY <2>1, <3>1, <3>2 DEF AbsApplied
    <3>4. AbsBox' = "empty" /\ AbsSettings' = config
      BY <2>1, <2>2, <3>2 DEF MapInv
    <3> QED BY <2>3, <2>4, <3>3, <3>4 DEF Mailbox!vars
  <2>6. CASE EndApply
    <3>1. dtodo = {} /\ rw' = "none_pending" /\ dpc' = "process" /\ UNCHANGED live
      BY <2>1, <2>6 DEF EndApply
    <3>2. UNCHANGED AbsApplied
      BY <3>1 DEF AbsApplied
    <3>3. AbsBox' = "empty" /\ AbsSettings' = config
      BY <2>1, <2>2, <3>1 DEF MapInv
    <3> QED BY <2>3, <2>4, <3>2, <3>3 DEF Mailbox!vars
  <2> QED BY <1>3, <2>5, <2>6
<1>4. CASE PublishWord \/ EndPublish
  <2>1. dpc = "publish" /\ rw = "read_pending" /\ UNCHANGED <<state, live>>
    BY <1>4 DEF PublishWord, EndPublish, HandOverInv
  <2>2. \A d \in Controllers : pc[d] \notin {"copyin", "copyout"} /\ pc'[d] \notin {"copyin", "copyout"}
    BY <1>1, <2>1 DEF HandOverInv, controllerVars
  <2>3. AbsBox = "answer" /\ AbsSettings = [w \in Words |-> IF w \in dtodo THEN state[w] ELSE config[w]]
    BY <2>1, <2>2 DEF MapInv
  <2>4. UNCHANGED <<AbsAsker, AbsAskedCmd, AbsClient, AbsBuf>>
    <3>1. UNCHANGED AbsAsker
      BY <1>1, <2>2 DEF MapInv, controllerVars
    <3> QED BY <1>1, <2>2, <3>1, HandlerMapsClients DEF AbsAskedCmd, controllerVars
  <2>5. UNCHANGED AbsApplied
    BY <1>4, <2>1 DEF PublishWord, EndPublish, AbsApplied
  <2>6. CASE PublishWord
    <3>1. PICK v \in dtodo : config' = [config EXCEPT ![v] = state[v]] /\ dtodo' = dtodo \ {v}
      BY <2>6 DEF PublishWord
    <3>2. UNCHANGED <<rw, dpc>>
      BY <2>6 DEF PublishWord
    <3>3. AbsBox' = "answer" /\ AbsSettings' = AbsSettings
      BY <2>1, <2>2, <2>3, <3>1, <3>2 DEF MapInv
    <3> QED BY <2>3, <2>4, <2>5, <3>3 DEF Mailbox!vars
  <2>7. CASE EndPublish
    <3>1. dtodo = {} /\ rw' = "read_updated" /\ dpc' = "process" /\ UNCHANGED config
      BY <2>7 DEF EndPublish
    <3>2. AbsBox' = "answer" /\ AbsSettings' = AbsSettings
      BY <2>1, <2>2, <2>3, <3>1 DEF MapInv
    <3> QED BY <2>3, <2>4, <2>5, <3>2 DEF Mailbox!vars
  <2> QED BY <1>4, <2>6, <2>7
<1> QED BY <1>2, <1>3, <1>4 DEF Handle

LEMMA FrameMaps ==
  ASSUME RefInv, MapInv, MapInv', ProcessFrame
  PROVE  Mailbox!Drift
<1> USE DEF RefInv, IInv, TypeOK, OneCopyInv
<1>1. PICK moved \in [Dynamic -> Values] :
        live' = [w \in Words |-> IF w \in Dynamic THEN moved[w] ELSE live[w]]
  BY DEF ProcessFrame
<1>2. dpc = "process" /\ UNCHANGED <<config, rw, controllerVars, dpc, dtodo>>
  BY DEF ProcessFrame
<1>3. AbsApplied' = [w \in Words |-> IF w \in Dynamic THEN moved[w] ELSE AbsApplied[w]]
  BY <1>1, <1>2 DEF AbsApplied
<1>4. UNCHANGED <<AbsClient, AbsBuf>>
  BY <1>2, HandlerMapsClients
<1>5. UNCHANGED AbsSettings
  <2>1. UNCHANGED <<pc, todo, buf>>
    BY <1>2 DEF controllerVars
  <2>2. CASE \A c \in Controllers : pc[c] # "copyin"
    BY <1>2, <2>1, <2>2 DEF MapInv
  <2>3. ASSUME NEW c \in Controllers, pc[c] = "copyin" PROVE UNCHANGED AbsSettings
    BY <1>2, <2>1, <2>3 DEF MapInv
  <2> QED BY <2>2, <2>3
<1>6. UNCHANGED <<AbsBox, AbsAsker, AbsAskedCmd>>
  BY <1>2 DEF AbsBox, AbsAsker, AbsAskedCmd, Copying, controllerVars
<1> QED BY <1>3, <1>4, <1>5, <1>6 DEF Mailbox!Drift

LEMMA InitMaps == Init => RefInv /\ Mailbox!Init
<1> SUFFICES ASSUME Init PROVE RefInv /\ Mailbox!Init
  OBVIOUS
<1>1. RefInv
  BY InitIInv DEF Init, RefInv, OwnerInv, OneCopyInv
<1>2. AbsSettings = config /\ AbsBox = "empty" /\ AbsAsker = Nobody
  BY <1>1, MapTrue DEF Init, MapInv, RefInv, IInv, TypeOK
<1>3. AbsApplied = config /\ AbsAskedCmd = NoCommand
  BY <1>2 DEF Init, AbsApplied, AbsAskedCmd
<1>4. AbsClient = [c \in Controllers |-> NoRequest] /\ AbsBuf = [c \in Controllers |-> config]
  BY DEF Init, AbsClient, AbsBuf
<1> QED BY <1>1, <1>2, <1>3, <1>4 DEF Init, Mailbox!Init, Mailbox!NoWant, NoRequest

LEMMA StepMaps == LateWords = {} /\ RefInv /\ MapInv /\ MapInv' /\ [Next]_vars => [Mailbox!Next]_(Mailbox!vars)
<1> SUFFICES ASSUME LateWords = {}, RefInv, MapInv, MapInv', [Next]_vars
             PROVE  Mailbox!Next \/ UNCHANGED Mailbox!vars
  OBVIOUS
<1>1. ASSUME NEW c \in Controllers, IssueWrite(c) \/ IssueRead(c) \/ Abandon(c) PROVE Mailbox!Next
  BY <1>1, IssueMaps DEF Mailbox!Next
<1>2. ASSUME NEW c \in Controllers, Call(c) PROVE Mailbox!Next \/ UNCHANGED Mailbox!vars
  <2>1. CASE Acquire(c) \/ Refuse(c) \/ Release(c)
    BY <2>1, LockMaps
  <2>2. CASE BeginWrite(c) \/ CopyIn(c) \/ EndWrite(c)
    BY <2>2, BeginWriteMaps, CopyInMaps DEF Mailbox!Next
  <2>3. CASE RequestRead(c) \/ BeginRead(c)
    BY <2>3, RequestReadMaps, BeginReadMaps DEF Mailbox!Next
  <2>4. CASE CopyOut(c) \/ EndRead(c)
    BY <2>4, CopyOutMaps
  <2> QED BY <1>2, <2>1, <2>2, <2>3, <2>4 DEF Call
<1>3. CASE Handle
  BY <1>3, HandleMaps DEF Mailbox!Next
<1>4. CASE ProcessFrame
  BY <1>4, FrameMaps DEF Mailbox!Next
<1>5. CASE UNCHANGED vars
  BY <1>5 DEF vars, controllerVars, dspVars, Mailbox!vars, AbsSettings, Bringing, Bringer,
              AbsApplied, AbsBox, Copying, AbsAsker, AbsAskedCmd, AbsClient, AbsBuf
<1> QED BY <1>1, <1>2, <1>3, <1>4, <1>5 DEF Next

\* Commands are executed one at a time and whole, although they are copied word by
\* word and answered two calls later: the lock and the four states of config_rw_state
\* implement a mailbox for one command, for any number of controllers, any config
\* struct, and reads given up at any time; for every stage that has read config
\* before it clears the state. (adsp_read_module_config, adsp_write_module_config)
THEOREM ControlIsMailbox == ASSUME LateWords = {} PROVE Spec => ImplementsMailbox
<1>1. Init => RefInv /\ Mailbox!Init
  BY InitMaps
<1>2. RefInv /\ [Next]_vars => RefInv'
  BY StepRefInv
<1>3. RefInv => MapInv
  BY MapTrue DEF RefInv
<1>4. RefInv /\ MapInv /\ MapInv' /\ [Next]_vars => [Mailbox!Next]_(Mailbox!vars)
  BY StepMaps
<1> QED BY <1>1, <1>2, <1>3, <1>4, PTL DEF Spec, ImplementsMailbox, Mailbox!Spec

-----------------------------------------------------------------------------
(* Tuning.                                                                   *)

Messages ==
  [op : {"read"}, cmd : Commands \cup {Checksum}] \cup [op : {"write"}, cmd : Tunable, value : Values]

HostTyped ==
  /\ asked \in [Tunable -> Values \cup {Malformed}]
  /\ due \subseteq DOMAIN ConfigOrder
  /\ uploads \in Seq(Messages)

HostInv == TypeOK /\ RequestInv /\ HostTyped

\* A message that the server takes is one more, at the end.
LEMMA PublishTyped ==
  ASSUME HostTyped, NEW m \in Messages, Accepted(m) \/ Refused
  PROVE  uploads' \in Seq(Messages)
BY DEF HostTyped, Accepted, Refused

LEMMA ReadIsMessage == \A k \in Commands \cup {Checksum} : [op |-> "read", cmd |-> k] \in Messages
BY DEF Messages

LEMMA OrderIsTunable == \A i \in DOMAIN ConfigOrder : ConfigOrder[i] \in Tunable
BY DEF Tunable

LEMMA InitHostInv == TuningInit => Init /\ HostInv
<1> SUFFICES ASSUME TuningInit PROVE Init /\ HostInv
  OBVIOUS
<1>1. Init
  BY DEF TuningInit
<1>2. HostTyped
  BY DEF TuningInit, HostTyped
<1> QED BY <1>1, <1>2, InitTypeOK DEF HostInv, Init, RequestInv

\* What the control thread begins is a write or a read of StageControl.
LEMMA TakeUploadIsIssue ==
  ASSUME HostInv, TakeUpload
  PROVE  (IssueWrite(Thread) \/ IssueRead(Thread) \/ UNCHANGED vars) /\ HostTyped'
<1> DEFINE m == Head(uploads)
<1>1. pc[Thread] = "idle" /\ uploads # <<>> /\ uploads' = Tail(uploads)
      /\ UNCHANGED <<config, rw, todo, lock, cmdId, owner, abandoned, dspVars, asked, due>>
  BY DEF TakeUpload
<1>2. m \in Messages
  BY <1>1 DEF HostInv, HostTyped
<1>3. HostTyped'
  BY <1>1 DEF HostInv, HostTyped
<1>4. CASE m.cmd \notin Commands
  <2>1. UNCHANGED <<pc, req, buf>>
    BY <1>4 DEF TakeUpload
  <2> QED BY <1>1, <1>3, <2>1 DEF vars, controllerVars
<1>5. CASE m.cmd \in Commands
  <2>1. /\ req' = [req EXCEPT ![Thread] = [op |-> m.op, cmd |-> m.cmd]]
        /\ buf' = IF m.op = "read" THEN buf
                  ELSE [buf EXCEPT ![Thread] = [w \in Words |-> IF w \in CmdWords[m.cmd] THEN m.value ELSE @[w]]]
        /\ pc' = [pc EXCEPT ![Thread] = "call"]
    BY <1>5 DEF TakeUpload
  <2>2. CASE m.op = "read"
    BY <1>1, <1>3, <1>5, <2>1, <2>2 DEF IssueRead
  <2>3. CASE m.op # "read"
    <3>1. m.op = "write" /\ m.value \in Values
      BY <1>2, <2>3 DEF Messages
    <3>2. buf[Thread] \in [Words -> Values]
      BY TuningAssumption DEF HostInv, TypeOK
    <3>3. [w \in Words |-> IF w \in CmdWords[m.cmd] THEN m.value ELSE buf[Thread][w]] \in [Words -> Values]
      BY <3>1, <3>2
    <3> QED BY <1>1, <1>3, <1>5, <2>1, <2>3, <3>1, <3>3 DEF IssueWrite
  <2> QED BY <2>2, <2>3
<1> QED BY <1>4, <1>5

\* Every step of the whole is a step of StageControl, or none of its.
LEMMA StepIsControl == HostInv /\ [TuningNext]_tuningVars => [Next]_vars /\ HostTyped'
<1> SUFFICES ASSUME HostInv, [TuningNext]_tuningVars PROVE [Next]_vars /\ HostTyped'
  OBVIOUS
<1> USE DEF HostInv
<1>1. Thread \in Controllers
  BY TuningAssumption
<1>2. ASSUME NEW k \in Tunable, NEW v \in Settings[k], Tune(k, v) PROVE UNCHANGED vars /\ HostTyped'
  <2>1. v \in Values \cup {Malformed}
    BY TuningAssumption DEF Tunable
  <2> QED BY <1>2, <2>1 DEF Tune, HostTyped
<1>3. CASE BeginCall
  <2>1. due' \subseteq DOMAIN ConfigOrder /\ UNCHANGED <<vars, asked>>
    BY <1>3 DEF BeginCall, Changed
  <2>2. uploads' \in Seq(Messages)
    <3>1. CASE Validates
      BY <1>3, <3>1, PublishTyped, ReadIsMessage DEF BeginCall, PublishRead
    <3>2. CASE ~Validates
      BY <1>3, <3>2 DEF BeginCall, HostTyped
    <3> QED BY <3>1, <3>2
  <2> QED BY <2>1, <2>2 DEF HostTyped
<1>4. CASE Validate \/ EndCall \/ TakeAnswer \/ Timeout
  BY <1>4 DEF Validate, EndCall, TakeAnswer, Timeout, HostTyped
<1>5. CASE WriteDue
  <2>1. PICK i \in due :
          LET k == ConfigOrder[i]
          IN  IF ~Packs(asked[k]) THEN due' = {} /\ UNCHANGED uploads
              ELSE /\ due' = due \ {i}
                   /\ Accepted([op |-> "write", cmd |-> k, value |-> asked[k]]) \/ Refused
    BY <1>5 DEF WriteDue
  <2>2. UNCHANGED <<vars, asked>>
    BY <1>5 DEF WriteDue
  <2> DEFINE k == ConfigOrder[i]
  <2>3. k \in Tunable /\ asked[k] \in Values \cup {Malformed}
    BY OrderIsTunable DEF HostTyped
  <2>4. CASE ~Packs(asked[k])
    BY <2>1, <2>2, <2>4 DEF HostTyped
  <2>5. CASE Packs(asked[k])
    <3>1. [op |-> "write", cmd |-> k, value |-> asked[k]] \in Messages
      BY <2>3, <2>5 DEF Packs, Messages
    <3>2. uploads' \in Seq(Messages)
      BY <2>1, <2>5, <3>1, PublishTyped
    <3>3. due' \subseteq DOMAIN ConfigOrder
      BY <2>1, <2>5 DEF HostTyped
    <3> QED BY <2>2, <3>2, <3>3 DEF HostTyped
  <2> QED BY <2>4, <2>5
<1>6. ASSUME NEW k \in Commands, BeginReading(k) PROVE UNCHANGED vars /\ HostTyped'
  <2>1. uploads' \in Seq(Messages)
    BY <1>6, PublishTyped, ReadIsMessage DEF BeginReading, PublishRead
  <2> QED BY <1>6, <2>1 DEF BeginReading, HostTyped
<1>7. CASE TakeUpload
  BY <1>1, <1>7, TakeUploadIsIssue DEF Next
<1>8. CASE Retry
  <2>1. Call(Thread) /\ UNCHANGED <<asked, due, uploads>>
    BY <1>8 DEF Retry
  <2> QED BY <1>1, <2>1 DEF Next, HostTyped
<1>9. CASE DspThread
  BY <1>9 DEF DspThread, hostVars, Next, HostTyped
<1>10. CASE UNCHANGED tuningVars
  BY <1>10 DEF tuningVars, hostVars, HostTyped
<1> QED BY <1>2, <1>3, <1>4, <1>5, <1>6, <1>7, <1>8, <1>9, <1>10 DEF TuningNext

LEMMA StepHostInv == HostInv /\ [TuningNext]_tuningVars => HostInv'
BY StepIsControl, StepTypeOK, StepRequestInv DEF HostInv

\* From the designer's call to the word in config, tuning is a use of the control
\* interface: whatever uploads are refused, reads time out or values are malformed,
\* the stage sees commands that a single well-behaved controller could have given.
\* (adsp_control_xscope, ConfigSender)
THEOREM TuningIsControl == TuningSpec => Spec
<1>1. HostInv /\ [TuningNext]_tuningVars => [Next]_vars
  BY StepIsControl
<1> QED BY <1>1, InitHostInv, StepHostInv, PTL DEF TuningSpec, Spec
-----------------------------------------------------------------------------
(* A read returns what was last written                                       *)

\* What a memcpy has copied is the same on both sides until the lock is released.
CopyInv ==
  \A c \in Controllers :
    /\ pc[c] \in {"copyin", "copyout"} => todo[c] \subseteq CmdWords[req[c].cmd]
    /\ pc[c] \in {"copyin", "copyout", "unlock_ok"} =>
         \A w \in CmdWords[req[c].cmd] \ Dynamic :
           (pc[c] = "unlock_ok" \/ w \notin todo[c]) => buf[c][w] = config[w]

Writing(m, w) == m.op = "write" /\ m.cmd \in Commands /\ w \in CmdWords[m.cmd]

\* The value the host last uploaded for a word is in the last message that writes
\* it, or in the control thread's hands, or in config.
SentInv ==
  \A w \in Words \ Dynamic :
    /\ \A i \in DOMAIN uploads :
         Writing(uploads[i], w) /\ (\A j \in DOMAIN uploads : j > i => ~Writing(uploads[j], w))
           => uploads[i].value = told[w]
    /\ (\A i \in DOMAIN uploads : ~Writing(uploads[i], w))
         => IF Writing(req[Thread], w) THEN buf[Thread][w] = told[w] ELSE config[w] = told[w]

\* The whereabouts of a read: nowhere, last in the queue, being executed, answered.
NoReads == \A i \in DOMAIN uploads : uploads[i].op # "read"
NothingAsked == answers = <<>> /\ req[Thread].op # "read" /\ NoReads
AskedLast ==
  /\ answers = <<>> /\ req[Thread].op # "read"
  /\ uploads # <<>> /\ uploads[Len(uploads)] = [op |-> "read", cmd |-> reading]
  /\ \A i \in DOMAIN uploads : i < Len(uploads) => uploads[i].op # "read"
InService == answers = <<>> /\ uploads = <<>> /\ req[Thread] = [op |-> "read", cmd |-> reading]
Answered ==
  /\ uploads = <<>> /\ req[Thread].op # "read" /\ answers # <<>> /\ Tail(answers) = <<>>
  /\ Head(answers).cmd = reading /\ (reading \in Commands => AnswersTheRead)

\* Until a read times out there is at most one, and the host waits for it.
WaitInv ==
  /\ late \in Nat
  /\ phase = "reading" => reading \in Commands
  /\ phase = "validating" => reading = Checksum
  /\ late = 0 => \/ NothingAsked
                 \/ phase \in {"validating", "reading"} /\ (AskedLast \/ InService \/ Answered)

EndInv == IInv /\ CopyInv /\ HostTyped /\ SentInv /\ WaitInv

LEMMA CmdWordsTyped == \A k \in Commands : CmdWords[k] \subseteq Words
BY CmdWordsAssumption

\* The handler's copy leaves the words only the host writes as they are in config.
LEMMA HandleKeepsSettings ==
  ASSUME IInv, Handle
  PROVE  /\ \A w \in Words \ Dynamic : config'[w] = config[w]
         /\ UNCHANGED controllerVars
         /\ (\E c \in Controllers : pc[c] = "copyin") => UNCHANGED config
<1>1. CASE BeginApply \/ ApplyWord \/ EndApply \/ BeginPublish \/ EndPublish
  BY <1>1 DEF BeginApply, ApplyWord, EndApply, BeginPublish, EndPublish
<1>2. CASE PublishWord
  <2>1. PICK v \in dtodo : config' = [config EXCEPT ![v] = state[v]]
    BY <1>2 DEF PublishWord
  <2>2. rw = "read_pending" /\ \A c \in Controllers : pc[c] # "copyin"
    BY <1>2 DEF PublishWord, IInv, HandOverInv
  <2>3. \A w \in Words \ Dynamic : config[w] = state[w]
    BY <2>2 DEF IInv, ConfigInv
  <2> QED BY <1>2, <2>1, <2>2, <2>3 DEF PublishWord, IInv, TypeOK
<1> QED BY <1>1, <1>2 DEF Handle

LEMMA StepCopyInv == IInv /\ CopyInv /\ [Next]_vars => CopyInv'
<1> SUFFICES ASSUME IInv, CopyInv, [Next]_vars PROVE CopyInv'
  OBVIOUS
<1> USE CmdWordsTyped DEF IInv, TypeOK, CopyInv
<1>1. ASSUME NEW c \in Controllers, IssueWrite(c) \/ IssueRead(c) \/ Abandon(c) PROVE CopyInv'
  BY <1>1 DEF IssueWrite, IssueRead, Abandon
<1>2. ASSUME NEW c \in Controllers, Call(c) PROVE CopyInv'
  <2>1. pc[c] \in Holding => \A d \in Controllers \ {c} : pc[d] \notin Holding
    BY DEF MutexInv
  <2>2. req[c].op \in {"read", "write"} => req[c].cmd \in Commands
    BY RequestTypes
  <2>3. CASE Acquire(c) \/ BeginWrite(c) \/ RequestRead(c) \/ BeginRead(c) \/ Refuse(c)
    BY <2>2, <2>3 DEF Acquire, BeginWrite, RequestRead, BeginRead, Refuse
  <2>4. CASE CopyIn(c)
    <3>1. PICK v \in todo[c] :
            /\ config' = [config EXCEPT ![v] = buf[c][v]]
            /\ todo' = [todo EXCEPT ![c] = @ \ {v}]
      BY <2>4 DEF CopyIn
    <3>2. pc[c] = "copyin" /\ UNCHANGED <<pc, req, buf>>
      BY <2>4 DEF CopyIn
    <3>3. \A d \in Controllers \ {c} : pc[d] \notin Holding
      BY <2>1, <3>2 DEF Holding
    <3> QED BY <3>1, <3>2, <3>3 DEF Holding
  <2>5. CASE CopyOut(c)
    <3>1. PICK v \in todo[c] :
            /\ buf' = [buf EXCEPT ![c] = [@ EXCEPT ![v] = config[v]]]
            /\ todo' = [todo EXCEPT ![c] = @ \ {v}]
      BY <2>5 DEF CopyOut
    <3>2. pc[c] = "copyout" /\ UNCHANGED <<config, pc, req>>
      BY <2>5 DEF CopyOut
    <3> QED BY <3>1, <3>2
  <2>6. CASE EndWrite(c) \/ EndRead(c)
    BY <2>6 DEF EndWrite, EndRead
  <2>7. CASE Release(c)
    BY <2>7 DEF Release
  <2> QED BY <1>2, <2>3, <2>4, <2>5, <2>6, <2>7 DEF Call
<1>3. CASE Handle
  <2>1. UNCHANGED <<pc, req, buf, todo>> /\ \A w \in Words \ Dynamic : config'[w] = config[w]
    BY <1>3, HandleKeepsSettings DEF controllerVars
  <2>2. \A c \in Controllers :
          pc[c] \in {"copyin", "copyout"} => req[c].cmd \in Commands
    BY RequestTypes DEF RequestInv
  <2>3. \A c \in Controllers : pc[c] = "unlock_ok" => req[c].cmd \in Commands
    BY RequestTypes DEF RequestInv, Requests
  <2> QED BY <2>1, <2>2, <2>3
<1>4. CASE ProcessFrame \/ UNCHANGED vars
  BY <1>4 DEF ProcessFrame, vars, controllerVars
<1> QED BY <1>1, <1>2, <1>3, <1>4 DEF Next

\* What the stage's control thread has in hand is a whole command.
LEMMA RequestShape ==
  ASSUME IInv
  PROVE  /\ Thread \in Controllers
         /\ req[Thread].op \in {"read", "write"} => req[Thread].cmd \in Commands
         /\ req[Thread].op = "read" => req[Thread] = [op |-> "read", cmd |-> req[Thread].cmd]
         /\ pc[Thread] = "idle" => req[Thread].op = "none"
         /\ pc[Thread] # "idle" => req[Thread].op \in {"read", "write"}
BY TuningAssumption, RequestTypes DEF IInv, TypeOK, RequestInv, NoRequest, Requests

\* An upload of the host: a message more, which writes only what it says.
LEMMA UploadKeepsSent ==
  ASSUME HostTyped, SentInv, UNCHANGED vars, NEW m \in Messages,
         \/ /\ Accepted(m)
            /\ \A w \in Words \ Dynamic : told'[w] = IF Writing(m, w) THEN m.value ELSE told[w]
         \/ Refused /\ UNCHANGED told
  PROVE  SentInv'
<1> SUFFICES ASSUME NEW w \in Words \ Dynamic
             PROVE  /\ \A i \in DOMAIN uploads' :
                         Writing(uploads'[i], w) /\ (\A j \in DOMAIN uploads' : j > i => ~Writing(uploads'[j], w))
                           => uploads'[i].value = told'[w]
                    /\ (\A i \in DOMAIN uploads' : ~Writing(uploads'[i], w))
                         => IF Writing(req[Thread], w) THEN buf[Thread][w] = told'[w] ELSE config[w] = told'[w]
  BY DEF SentInv, vars, controllerVars, Writing
<1>1. CASE Accepted(m) /\ \A v \in Words \ Dynamic : told'[v] = IF Writing(m, v) THEN m.value ELSE told[v]
  <2>1. /\ uploads \in Seq(Messages) /\ Len(uploads) \in Nat
        /\ DOMAIN uploads = 1..Len(uploads)
        /\ DOMAIN uploads' = 1..(Len(uploads) + 1)
        /\ uploads'[Len(uploads) + 1] = m
        /\ \A i \in 1..Len(uploads) : uploads'[i] = uploads[i]
    BY <1>1 DEF Accepted, HostTyped
  <2>2. CASE Writing(m, w)
    BY <1>1, <2>1, <2>2
  <2>3. CASE ~Writing(m, w)
    <3>1. told'[w] = told[w]
      BY <1>1, <2>3
    <3>2. \A i \in DOMAIN uploads' : Writing(uploads'[i], w) => i \in DOMAIN uploads
      BY <2>1, <2>3
    <3>3. DOMAIN uploads \subseteq DOMAIN uploads'
      BY <2>1
    <3> QED BY <2>1, <3>1, <3>2, <3>3 DEF SentInv
  <2> QED BY <2>2, <2>3
<1>2. CASE Refused /\ UNCHANGED told
  BY <1>2 DEF Refused, SentInv
<1> QED BY <1>1, <1>2

\* The control thread takes the oldest message: the others are still in line.
LEMMA TakeKeepsSent ==
  ASSUME IInv, HostTyped, SentInv, TakeUpload
  PROVE  SentInv'
<1> DEFINE m == Head(uploads)
<1>1. /\ uploads \in Seq(Messages) /\ Len(uploads) \in Nat \ {0} /\ m = uploads[1]
      /\ DOMAIN uploads = 1..Len(uploads)
      /\ DOMAIN uploads' = 1..(Len(uploads) - 1)
      /\ \A i \in 1..(Len(uploads) - 1) : uploads'[i] = uploads[i + 1]
  BY DEF HostTyped, TakeUpload
<1>2. UNCHANGED <<config, told>> /\ req[Thread].op = "none" /\ Thread \in Controllers
  BY RequestShape DEF TakeUpload
<1>3. m \in Messages
  BY <1>1
<1>4. \A w \in Words \ Dynamic :
        \/ ~Writing(m, w) /\ ~Writing(req'[Thread], w)
        \/ Writing(m, w) /\ Writing(req'[Thread], w) /\ buf'[Thread][w] = m.value
  <2>1. CASE m.cmd \notin Commands
    BY <1>2, <2>1 DEF TakeUpload, Writing
  <2>2. CASE m.cmd \in Commands
    <3>1. req' = [req EXCEPT ![Thread] = [op |-> m.op, cmd |-> m.cmd]]
      BY <2>2 DEF TakeUpload
    <3>2. m.op # "read" =>
            buf' = [buf EXCEPT ![Thread] = [w \in Words |-> IF w \in CmdWords[m.cmd] THEN m.value ELSE @[w]]]
      BY <2>2 DEF TakeUpload
    <3> QED BY <1>2, <2>2, <3>1, <3>2 DEF Writing, IInv, TypeOK
  <2> QED BY <2>1, <2>2
<1> SUFFICES ASSUME NEW w \in Words \ Dynamic
             PROVE  /\ \A i \in DOMAIN uploads' :
                         Writing(uploads'[i], w) /\ (\A j \in DOMAIN uploads' : j > i => ~Writing(uploads'[j], w))
                           => uploads'[i].value = told'[w]
                    /\ (\A i \in DOMAIN uploads' : ~Writing(uploads'[i], w))
                         => IF Writing(req'[Thread], w) THEN buf'[Thread][w] = told'[w] ELSE config'[w] = told'[w]
  BY DEF SentInv, Writing
<1>5. ASSUME NEW i \in DOMAIN uploads', Writing(uploads'[i], w),
             \A j \in DOMAIN uploads' : j > i => ~Writing(uploads'[j], w)
      PROVE  uploads'[i].value = told'[w]
  <2>1. i + 1 \in DOMAIN uploads /\ uploads'[i] = uploads[i + 1]
    BY <1>1, <1>5
  <2>2. \A j \in DOMAIN uploads : j > i + 1 => ~Writing(uploads[j], w)
    <3> SUFFICES ASSUME NEW j \in DOMAIN uploads, j > i + 1 PROVE ~Writing(uploads[j], w)
      OBVIOUS
    <3>1. j - 1 \in DOMAIN uploads' /\ j - 1 > i /\ uploads'[j - 1] = uploads[j]
      BY <1>1
    <3> QED BY <1>5, <3>1
  <2> QED BY <1>2, <1>5, <2>1, <2>2 DEF SentInv
<1>6. ASSUME \A i \in DOMAIN uploads' : ~Writing(uploads'[i], w)
      PROVE  IF Writing(req'[Thread], w) THEN buf'[Thread][w] = told'[w] ELSE config'[w] = told'[w]
  <2>1. \A j \in DOMAIN uploads : j > 1 => ~Writing(uploads[j], w)
    <3> SUFFICES ASSUME NEW j \in DOMAIN uploads, j > 1 PROVE ~Writing(uploads[j], w)
      OBVIOUS
    <3>1. j - 1 \in DOMAIN uploads' /\ uploads'[j - 1] = uploads[j]
      BY <1>1
    <3> QED BY <1>6, <3>1
  <2>2. CASE Writing(m, w)
    <3>1. m.value = told[w]
      BY <1>1, <2>1, <2>2 DEF SentInv
    <3> QED BY <1>2, <1>4, <2>2, <3>1
  <2>3. CASE ~Writing(m, w)
    <3>1. \A j \in DOMAIN uploads : ~Writing(uploads[j], w)
      BY <1>1, <2>1, <2>3
    <3>2. config[w] = told[w]
      BY <1>2, <3>1 DEF SentInv, Writing
    <3> QED BY <1>2, <1>4, <2>3, <3>2
  <2> QED BY <2>2, <2>3
<1> QED BY <1>5, <1>6

\* The call of the control thread moves a written word from its hands to config.
LEMMA CallKeepsSent ==
  ASSUME IInv, CopyInv, SentInv, Call(Thread), UNCHANGED <<uploads, told>>
  PROVE  SentInv'
<1> USE RequestShape DEF IInv, TypeOK, SentInv, Writing
<1>1. CASE Acquire(Thread) \/ BeginWrite(Thread) \/ EndWrite(Thread) \/ RequestRead(Thread)
           \/ BeginRead(Thread) \/ EndRead(Thread) \/ Refuse(Thread)
  BY <1>1 DEF Acquire, BeginWrite, EndWrite, RequestRead, BeginRead, EndRead, Refuse
<1>2. CASE CopyIn(Thread)
  <2>1. PICK v \in todo[Thread] : config' = [config EXCEPT ![v] = buf[Thread][v]]
    BY <1>2 DEF CopyIn
  <2>2. pc[Thread] = "copyin" /\ UNCHANGED <<req, buf>> /\ v \in CmdWords[req[Thread].cmd]
    BY <1>2 DEF CopyIn, CopyInv
  <2>3. req[Thread].op = "write" /\ req[Thread].cmd \in Commands
    BY <2>2 DEF RequestInv
  <2> QED BY <2>1, <2>2, <2>3
<1>3. CASE CopyOut(Thread)
  <2>1. req[Thread].op = "read" /\ UNCHANGED <<config, req>>
    BY <1>3 DEF CopyOut, RequestInv
  <2> QED BY <2>1
<1>4. CASE Release(Thread)
  <2>1. UNCHANGED <<config, buf>>
    BY <1>4 DEF Release
  <2>2. CASE pc[Thread] = "unlock_busy"
    BY <1>4, <2>1, <2>2 DEF Release
  <2>3. CASE pc[Thread] = "unlock_ok"
    <3>1. req'[Thread].op = "none"
      BY <1>4, <2>3 DEF Release, NoRequest
    <3>2. \A w \in Words \ Dynamic : Writing(req[Thread], w) => buf[Thread][w] = config[w]
      BY <2>3 DEF CopyInv
    <3> QED BY <2>1, <3>1, <3>2
  <2> QED BY <1>4, <2>2, <2>3 DEF Release
<1> QED BY <1>1, <1>2, <1>3, <1>4 DEF Call

LEMMA StepSentInv == IInv /\ CopyInv /\ HostTyped /\ SentInv /\ [TuningNext]_tuningVars => SentInv'
<1> SUFFICES ASSUME IInv, CopyInv, HostTyped, SentInv, [TuningNext]_tuningVars PROVE SentInv'
  OBVIOUS
<1>1. ASSUME UNCHANGED <<vars, uploads, told>> PROVE SentInv'
  BY <1>1 DEF SentInv, vars, controllerVars, Writing
<1>2. ASSUME NEW k \in Tunable, NEW v \in Settings[k], Tune(k, v) PROVE SentInv'
  BY <1>1, <1>2 DEF Tune
<1>3. CASE Validate \/ EndCall \/ TakeAnswer \/ Timeout \/ UNCHANGED tuningVars
  BY <1>1, <1>3 DEF Validate, EndCall, TakeAnswer, Timeout, tuningVars, hostVars
<1>4. ASSUME NEW k \in Commands \cup {Checksum}, PublishRead(k), UNCHANGED <<vars, told>> PROVE SentInv'
  <2> DEFINE m == [op |-> "read", cmd |-> k]
  <2>1. m \in Messages /\ \A w \in Words : ~Writing(m, w)
    BY ReadIsMessage DEF Writing
  <2> HIDE DEF m
  <2>2. Accepted(m) \/ Refused
    BY <1>4 DEF PublishRead, m
  <2> QED BY <1>4, <2>1, <2>2, UploadKeepsSent
<1>5. CASE BeginCall
  <2>1. CASE Validates
    BY <1>4, <1>5, <2>1 DEF BeginCall
  <2>2. CASE ~Validates
    BY <1>1, <1>5, <2>2 DEF BeginCall
  <2> QED BY <2>1, <2>2
<1>6. ASSUME NEW k \in Commands, BeginReading(k) PROVE SentInv'
  BY <1>4, <1>6 DEF BeginReading
<1>7. CASE WriteDue
  <2>1. PICK i \in due :
          LET k == ConfigOrder[i]
          IN  IF ~Packs(asked[k]) THEN UNCHANGED <<uploads, told>>
              ELSE \/ /\ Accepted([op |-> "write", cmd |-> k, value |-> asked[k]])
                      /\ told' = [w \in Words \ Dynamic |-> IF w \in Tuned(k) THEN asked[k] ELSE told[w]]
                   \/ Refused /\ UNCHANGED told
    BY <1>7 DEF WriteDue
  <2>2. UNCHANGED vars
    BY <1>7 DEF WriteDue
  <2> DEFINE k == ConfigOrder[i]
             m == [op |-> "write", cmd |-> k, value |-> asked[k]]
  <2>3. k \in Tunable /\ asked[k] \in Values \cup {Malformed}
    BY OrderIsTunable DEF HostTyped
  <2>4. CASE ~Packs(asked[k])
    BY <1>1, <2>1, <2>2, <2>4
  <2>5. CASE Packs(asked[k])
    <3>1. m \in Messages
      BY <2>3, <2>5 DEF Packs, Messages
    <3>2. \/ /\ Accepted(m)
             /\ \A w \in Words \ Dynamic : told'[w] = IF Writing(m, w) THEN m.value ELSE told[w]
          \/ Refused /\ UNCHANGED told
      BY <2>1, <2>5 DEF Tuned, Writing
    <3> QED BY <2>2, <3>1, <3>2, UploadKeepsSent
  <2> QED BY <2>4, <2>5
<1>8. CASE TakeUpload
  BY <1>8, TakeKeepsSent
<1>9. CASE Retry
  BY <1>9, CallKeepsSent DEF Retry
<1>10. CASE DspThread
  <2>1. UNCHANGED <<uploads, told>>
    BY <1>10 DEF DspThread, hostVars
  <2>2. UNCHANGED controllerVars /\ \A w \in Words \ Dynamic : config'[w] = config[w]
    BY <1>10, HandleKeepsSettings DEF DspThread, ProcessFrame
  <2> QED BY <2>1, <2>2 DEF SentInv, controllerVars, Writing
<1> QED BY <1>2, <1>3, <1>5, <1>6, <1>7, <1>8, <1>9, <1>10 DEF TuningNext

-----------------------------------------------------------------------------
\* A write that is uploaded, or nothing, while no read is under way.
LEMMA WriteKeepsQuiet ==
  ASSUME HostTyped, NothingAsked, UNCHANGED <<vars, answers>>, NEW m \in Messages,
         m.op = "write", Accepted(m) \/ Refused
  PROVE  NothingAsked'
BY DEF NothingAsked, NoReads, HostTyped, Accepted, Refused, vars, controllerVars

LEMMA ReadIsLast ==
  ASSUME HostTyped, NothingAsked, UNCHANGED <<vars, answers>>, NEW k \in Commands \cup {Checksum},
         PublishRead(k)
  PROVE  (NothingAsked \/ AskedLast)' /\ reading' = k
<1> DEFINE m == [op |-> "read", cmd |-> k]
<1>1. m \in Messages
  BY ReadIsMessage
<1>2. CASE Accepted(m)
  <2>1. /\ uploads \in Seq(Messages) /\ uploads' # <<>> /\ Len(uploads') = Len(uploads) + 1
        /\ uploads'[Len(uploads')] = m
        /\ \A i \in DOMAIN uploads' : i < Len(uploads') => i \in DOMAIN uploads /\ uploads'[i] = uploads[i]
    BY <1>1, <1>2 DEF HostTyped, Accepted
  <2> QED BY <2>1 DEF PublishRead, NothingAsked, NoReads, AskedLast, vars, controllerVars
<1>3. CASE Refused
  BY <1>3 DEF PublishRead, NothingAsked, NoReads, Refused, vars, controllerVars
<1> QED BY <1>2, <1>3 DEF PublishRead

\* What the control thread takes is the host's read only once nothing is before it.
LEMMA TakeMovesRead ==
  ASSUME IInv, HostTyped, WaitInv, late = 0, TakeUpload
  PROVE  WaitInv'
<1> DEFINE m == Head(uploads)
<1>1. /\ uploads \in Seq(Messages) /\ Len(uploads) \in Nat \ {0} /\ m = uploads[1]
      /\ uploads' = Tail(uploads) /\ Len(uploads') = Len(uploads) - 1
      /\ DOMAIN uploads = 1..Len(uploads)
      /\ DOMAIN uploads' = 1..(Len(uploads) - 1)
      /\ \A i \in 1..(Len(uploads) - 1) : uploads'[i] = uploads[i + 1]
  BY DEF HostTyped, TakeUpload
<1>2. UNCHANGED <<told, phase, reading, late>> /\ req[Thread].op = "none" /\ Thread \in Controllers
  BY RequestShape DEF TakeUpload
<1>3. CASE m.op # "read"
  <2>1. UNCHANGED answers /\ req'[Thread].op # "read"
    BY <1>2, <1>3 DEF TakeUpload, IInv, TypeOK
  <2>2. CASE NothingAsked
    BY <1>1, <1>2, <2>1, <2>2 DEF NothingAsked, NoReads, WaitInv
  <2>3. CASE AskedLast
    <3>1. Len(uploads) > 1
      BY <1>1, <1>3, <2>3 DEF AskedLast
    <3>2. AskedLast'
      BY <1>1, <1>2, <2>1, <2>3, <3>1 DEF AskedLast
    <3> QED BY <1>2, <2>3, <3>2 DEF WaitInv, AskedLast, NothingAsked, NoReads
  <2> QED BY <1>1, <1>2, <2>2, <2>3 DEF WaitInv, InService, Answered
<1>4. CASE m.op = "read"
  <2>1. AskedLast /\ phase \in {"validating", "reading"}
    BY <1>1, <1>2, <1>4 DEF WaitInv, NothingAsked, NoReads, InService, Answered
  <2>2. uploads' = <<>> /\ m = [op |-> "read", cmd |-> reading]
    BY <1>1, <1>4, <2>1 DEF AskedLast
  <2>3. CASE m.cmd \in Commands
    <3>1. UNCHANGED answers /\ req'[Thread] = [op |-> "read", cmd |-> reading]
      BY <1>2, <1>4, <2>2, <2>3 DEF TakeUpload, IInv, TypeOK
    <3> QED BY <1>2, <2>1, <2>2, <3>1 DEF WaitInv, AskedLast, InService
  <2>4. CASE m.cmd \notin Commands
    <3>1. answers' = Append(<<>>, [cmd |-> reading]) /\ UNCHANGED req
      BY <1>4, <2>1, <2>2, <2>4 DEF TakeUpload, Deliver, AskedLast
    <3>2. Answered'
      BY <1>2, <2>2, <2>4, <3>1 DEF Answered
    <3> QED BY <1>2, <2>1, <3>2 DEF WaitInv
  <2> QED BY <2>3, <2>4
<1> QED BY <1>3, <1>4

\* The answer carries what the stage's memcpy brought, which is what was last sent.
LEMMA CallAnswersRead ==
  ASSUME IInv, CopyInv, SentInv, WaitInv, late = 0, Retry
  PROVE  WaitInv'
<1> USE RequestShape DEF IInv, TypeOK
<1>1. Call(Thread) /\ UNCHANGED <<told, phase, uploads, reading, late>>
  BY DEF Retry
<1>2. CASE pc[Thread] = "unlock_ok"
  <2>1. Release(Thread) /\ req'[Thread].op = "none" /\ UNCHANGED <<config, buf>>
    BY <1>1, <1>2 DEF Call, Acquire, BeginWrite, CopyIn, EndWrite, RequestRead, BeginRead,
                      CopyOut, EndRead, Refuse, Release, NoRequest
  <2>2. CASE req[Thread].op # "read"
    BY <1>1, <2>1, <2>2 DEF Retry, Answering, WaitInv, NothingAsked, NoReads, AskedLast, InService,
                            Answered, AnswersTheRead
  <2>3. CASE req[Thread].op = "read"
    <3> DEFINE a == [cmd |-> reading, words |-> [w \in CmdWords[reading] |-> buf[Thread][w]]]
    <3>1. InService /\ phase \in {"validating", "reading"}
      BY <2>3 DEF WaitInv, NothingAsked, AskedLast, Answered
    <3>2. req[Thread].cmd = reading /\ reading \in Commands
      BY <2>3, <3>1 DEF InService
    <3>3. answers' = Append(<<>>, a)
      BY <1>2, <2>3, <3>1, <3>2 DEF Retry, Answering, Deliver, InService
    <3>4. \A w \in CmdWords[reading] \ Dynamic : buf[Thread][w] = told[w]
      BY <1>2, <2>3, <3>1, <3>2, CmdWordsTyped DEF CopyInv, SentInv, InService, Writing
    <3>5. answers' # <<>> /\ Tail(answers') = <<>> /\ Head(answers') = a
      BY <3>3
    <3>6. Answered'
      BY <1>1, <2>1, <3>1, <3>4, <3>5 DEF Answered, AnswersTheRead, InService
    <3> QED BY <1>1, <3>1, <3>6 DEF WaitInv
  <2> QED BY <2>2, <2>3
<1>3. CASE pc[Thread] # "unlock_ok"
  <2>1. UNCHANGED req
    BY <1>1, <1>3 DEF Call, Acquire, BeginWrite, CopyIn, EndWrite, RequestRead, BeginRead,
                      CopyOut, EndRead, Refuse, Release
  <2>2. UNCHANGED answers
    BY <1>3 DEF Retry, Answering
  <2> QED BY <1>1, <2>1, <2>2 DEF WaitInv, NothingAsked, NoReads, AskedLast, InService,
                                  Answered, AnswersTheRead
<1> QED BY <1>2, <1>3

LEMMA StepWaitInv ==
  IInv /\ CopyInv /\ HostTyped /\ SentInv /\ WaitInv /\ [TuningNext]_tuningVars => WaitInv'
<1> SUFFICES ASSUME IInv, CopyInv, HostTyped, SentInv, WaitInv, [TuningNext]_tuningVars PROVE WaitInv'
  OBVIOUS
<1>1. ASSUME UNCHANGED <<req, phase, uploads, answers, reading, told, late>> PROVE WaitInv'
  BY <1>1 DEF WaitInv, NothingAsked, NoReads, AskedLast, InService, Answered, AnswersTheRead
<1>2. ASSUME NEW k \in Tunable, NEW v \in Settings[k], Tune(k, v) PROVE WaitInv'
  BY <1>1, <1>2 DEF Tune, vars, controllerVars
<1>3. ASSUME phase \notin {"validating", "reading"}, late = 0 PROVE NothingAsked
  BY <1>3 DEF WaitInv
<1>4. CASE BeginCall
  <2>1. phase = "idle" /\ UNCHANGED <<vars, answers, late>>
    BY <1>4 DEF BeginCall
  <2>2. CASE Validates
    <3>1. phase' = "validating" /\ PublishRead(Checksum)
      BY <1>4, <2>2 DEF BeginCall
    <3>2. reading' = Checksum
      BY <3>1 DEF PublishRead
    <3>3. late = 0 => (NothingAsked \/ AskedLast)'
      BY <1>3, <2>1, <3>1, ReadIsLast
    <3> QED BY <2>1, <3>1, <3>2, <3>3 DEF WaitInv
  <2>3. CASE ~Validates
    <3>1. phase' = "sending" /\ UNCHANGED <<uploads, reading>>
      BY <1>4, <2>3 DEF BeginCall
    <3> QED BY <1>3, <2>1, <3>1 DEF WaitInv, NothingAsked, NoReads, vars, controllerVars
  <2> QED BY <2>2, <2>3
<1>5. ASSUME NEW k \in Commands, BeginReading(k) PROVE WaitInv'
  <2>1. phase = "idle" /\ phase' = "reading" /\ PublishRead(k) /\ UNCHANGED <<vars, answers, late>>
    BY <1>5 DEF BeginReading
  <2>2. reading' = k
    BY <2>1 DEF PublishRead
  <2>3. late = 0 => (NothingAsked \/ AskedLast)'
    BY <1>3, <2>1, ReadIsLast
  <2> QED BY <2>1, <2>2, <2>3 DEF WaitInv
<1>6. CASE Validate \/ TakeAnswer
  <2>1. /\ phase \in {"validating", "reading"} /\ answers # <<>> /\ answers' = Tail(answers)
        /\ phase' \in {"idle", "sending"} /\ UNCHANGED <<vars, uploads, late>>
    BY <1>6 DEF Validate, TakeAnswer
  <2>2. late = 0 => Answered
    BY <2>1 DEF WaitInv, NothingAsked, AskedLast, InService
  <2>3. late = 0 => NothingAsked'
    BY <2>1, <2>2 DEF Answered, NothingAsked, NoReads, vars, controllerVars
  <2> QED BY <2>1, <2>3 DEF WaitInv
<1>7. CASE Timeout
  <2>1. answers = <<>> /\ phase' = "idle" /\ UNCHANGED <<vars, uploads, answers>>
    BY <1>7 DEF Timeout
  <2>2. late' \in Nat /\ (late' = 0 => late = 0 /\ ~AnswerToCome)
    BY <1>7 DEF Timeout, WaitInv
  <2>3. late' = 0 => NothingAsked'
    BY <2>1, <2>2 DEF AnswerToCome, NothingAsked, NoReads, vars, controllerVars
  <2> QED BY <2>1, <2>2, <2>3 DEF WaitInv
<1>8. CASE WriteDue
  <2>1. phase = "sending" /\ phase' \in {"idle", "sending"} /\ UNCHANGED <<vars, answers, late>>
    BY <1>8 DEF WriteDue
  <2>2. PICK i \in due :
          LET k == ConfigOrder[i]
          IN  IF ~Packs(asked[k]) THEN UNCHANGED uploads
              ELSE Accepted([op |-> "write", cmd |-> k, value |-> asked[k]]) \/ Refused
    BY <1>8 DEF WriteDue
  <2> DEFINE k == ConfigOrder[i]
             m == [op |-> "write", cmd |-> k, value |-> asked[k]]
  <2>3. late = 0 => NothingAsked'
    <3>1. CASE ~Packs(asked[k])
      BY <1>3, <2>1, <2>2, <3>1 DEF NothingAsked, NoReads, vars, controllerVars
    <3>2. CASE Packs(asked[k])
      <4>1. m \in Messages
        BY <3>2, OrderIsTunable DEF HostTyped, Packs, Messages
      <4> QED BY <1>3, <2>1, <2>2, <3>2, <4>1, WriteKeepsQuiet
    <3> QED BY <3>1, <3>2
  <2> QED BY <2>1, <2>3 DEF WaitInv
<1>9. CASE EndCall
  <2>1. phase = "sending" /\ phase' = "idle" /\ UNCHANGED <<vars, uploads, answers, late>>
    BY <1>9 DEF EndCall
  <2> QED BY <1>3, <2>1 DEF WaitInv, NothingAsked, NoReads, vars, controllerVars
<1>10. ASSUME late # 0, UNCHANGED <<phase, reading, late>> PROVE WaitInv'
  BY <1>10 DEF WaitInv
<1>11. CASE TakeUpload
  BY <1>10, <1>11, TakeMovesRead DEF TakeUpload
<1>12. CASE Retry
  BY <1>10, <1>12, CallAnswersRead DEF Retry
<1>13. CASE DspThread
  <2>1. UNCHANGED req
    BY <1>13, HandleKeepsSettings DEF DspThread, ProcessFrame, controllerVars
  <2> QED BY <1>1, <1>13, <2>1 DEF DspThread, hostVars
<1>14. CASE UNCHANGED tuningVars
  BY <1>1, <1>14 DEF tuningVars, hostVars, vars, controllerVars
<1> QED BY <1>2, <1>4, <1>5, <1>6, <1>7, <1>8, <1>9, <1>11, <1>12, <1>13, <1>14 DEF TuningNext

LEMMA InitEndInv == TuningInit => EndInv
<1> SUFFICES ASSUME TuningInit PROVE EndInv
  OBVIOUS
<1>1. IInv /\ HostTyped
  BY InitHostInv, InitIInv DEF HostInv
<1>2. CopyInv /\ SentInv
  BY RequestShape, <1>1 DEF TuningInit, Init, CopyInv, SentInv, Writing
<1>3. WaitInv
  BY RequestShape, <1>1 DEF TuningInit, Init, WaitInv, NothingAsked, NoReads
<1> QED BY <1>1, <1>2, <1>3 DEF EndInv

LEMMA StepEndInv == EndInv /\ [TuningNext]_tuningVars => EndInv'
<1> SUFFICES ASSUME EndInv, [TuningNext]_tuningVars PROVE EndInv'
  OBVIOUS
<1>1. [Next]_vars /\ HostTyped'
  BY StepIsControl DEF EndInv, IInv, HostInv
<1> QED BY <1>1, StepIInv, StepCopyInv, StepSentInv, StepWaitInv DEF EndInv

\* A read returns the words the host last wrote, or those of the firmware, through
\* the server's queue, the control thread's retries and the stage's hand-over, as
\* long as no read has timed out. (XScopeTransport.read, ConfigSender)
THEOREM OwnWritesRead == TuningSpec => ReadsOwnWrites
<1>1. EndInv /\ [TuningNext]_tuningVars => [(TakeAnswer /\ late = 0) => AnswersTheRead]_tuningVars
  <2> SUFFICES ASSUME EndInv, TakeAnswer, late = 0 PROVE AnswersTheRead
    OBVIOUS
  <2> QED BY DEF EndInv, WaitInv, TakeAnswer, NothingAsked, AskedLast, InService, Answered
<1> QED BY <1>1, InitEndInv, StepEndInv, PTL DEF TuningSpec, ReadsOwnWrites

-----------------------------------------------------------------------------
(* What ConfigSender remembers                                                 *)

\* Every parameter has words of its own, which only the host writes. Not so of a
\* volume control, whose read overwrites the gain in config.
SettingsApart ==
  /\ \A i, j \in DOMAIN ConfigOrder : i # j => Tuned(ConfigOrder[i]) \cap Tuned(ConfigOrder[j]) = {}
  /\ \A k \in Tunable : Tuned(k) \subseteq Words \ Dynamic

Told(k, v) == \A w \in Tuned(k) : told[w] = v

\* A call that writes has yet to write some of what changed. What it has written,
\* or need not write, was told as it is asked for; all else as it is remembered.
DueInv ==
  /\ phase = "validating" => due = Changed
  /\ phase = "sending" => due \subseteq Changed

MemoryInv ==
  ~interrupted =>
    \A i \in DOMAIN ConfigOrder :
      LET k == ConfigOrder[i]
      IN  IF phase = "sending" /\ i \notin due THEN Told(k, asked[k])
          ELSE last[k] # NotSent => Told(k, last[k])

RememberInv == EndInv /\ DueInv /\ MemoryInv

\* What has not changed since it was remembered was remembered.
LEMMA UnchangedWasSent ==
  ASSUME HostTyped, NEW i \in DOMAIN ConfigOrder, i \notin Changed
  PROVE  last[ConfigOrder[i]] = asked[ConfigOrder[i]] /\ last[ConfigOrder[i]] # NotSent
BY OrderIsTunable, TuningAssumption DEF HostTyped, Changed

\* A call that writes starts from what is remembered.
LEMMA SendingStarts ==
  ASSUME HostTyped, MemoryInv, phase # "sending", due' = Changed,
         UNCHANGED <<asked, last, told, interrupted>>
  PROVE  MemoryInv'
BY UnchangedWasSent DEF MemoryInv, Told

\* The next value is written, cannot be packed, or its upload is refused.
LEMMA WriteRemembers ==
  ASSUME SettingsApart, HostTyped, DueInv, MemoryInv, WriteDue
  PROVE  MemoryInv'
<1> SUFFICES ASSUME ~interrupted', NEW j \in DOMAIN ConfigOrder
             PROVE  IF phase' = "sending" /\ j \notin due' THEN Told(ConfigOrder[j], asked[ConfigOrder[j]])'
                    ELSE last[ConfigOrder[j]] # NotSent => Told(ConfigOrder[j], last[ConfigOrder[j]])'
  BY DEF MemoryInv, WriteDue, Told
<1>1. PICK i \in due :
        IF ~Packs(asked[ConfigOrder[i]])
        THEN /\ phase' = "idle" /\ due' = {} /\ interrupted' = (interrupted \/ due # Changed)
             /\ UNCHANGED <<uploads, told>>
        ELSE /\ due' = due \ {i} /\ UNCHANGED phase
             /\ \/ /\ told' = [w \in Words \ Dynamic |-> IF w \in Tuned(ConfigOrder[i]) THEN asked[ConfigOrder[i]] ELSE told[w]]
                   /\ UNCHANGED interrupted
                \/ interrupted' = TRUE
  BY DEF WriteDue
<1>2. phase = "sending" /\ UNCHANGED <<asked, last>>
  BY DEF WriteDue
<1> DEFINE k == ConfigOrder[i]
           l == ConfigOrder[j]
<1>3. i \in DOMAIN ConfigOrder /\ l \in Tunable
  BY OrderIsTunable DEF HostTyped
<1>4. CASE ~Packs(asked[k])
  <2>1. ~interrupted /\ due = Changed /\ phase' = "idle" /\ UNCHANGED told
    BY <1>1, <1>4
  <2>2. last[l] # NotSent => Told(l, last[l])
    BY <1>2, <2>1, UnchangedWasSent DEF MemoryInv
  <2> QED BY <1>2, <2>1, <2>2 DEF Told
<1>5. CASE Packs(asked[k])
  <2>1. /\ ~interrupted /\ due' = due \ {i} /\ phase' = "sending"
        /\ told' = [w \in Words \ Dynamic |-> IF w \in Tuned(k) THEN asked[k] ELSE told[w]]
    BY <1>1, <1>2, <1>5
  <2>2. Tuned(l) \subseteq Words \ Dynamic
    BY <1>3 DEF SettingsApart
  <2>3. CASE j = i
    BY <1>2, <2>1, <2>2, <2>3 DEF Told
  <2>4. CASE j # i
    <3>1. \A w \in Tuned(l) : told'[w] = told[w]
      BY <1>3, <2>1, <2>2, <2>4 DEF SettingsApart
    <3> QED BY <1>2, <2>1, <2>4, <3>1 DEF MemoryInv, Told
  <2> QED BY <2>3, <2>4
<1> QED BY <1>4, <1>5

LEMMA StepRemembers ==
  ASSUME SettingsApart, HostTyped, DueInv, MemoryInv, [TuningNext]_tuningVars
  PROVE  DueInv' /\ MemoryInv'
<1>1. ASSUME UNCHANGED <<asked, phase, due, last, told, interrupted>> PROVE DueInv' /\ MemoryInv'
  BY <1>1 DEF DueInv, MemoryInv, Changed, Told
<1>2. ASSUME NEW k \in Tunable, NEW v \in Settings[k], Tune(k, v) PROVE DueInv' /\ MemoryInv'
  BY <1>2 DEF Tune, DueInv, MemoryInv, Told
<1>3. CASE BeginCall
  <2>1. phase = "idle" /\ due' = Changed /\ UNCHANGED <<asked, last, told, interrupted>>
    BY <1>3 DEF BeginCall
  <2> QED BY <2>1, SendingStarts DEF DueInv, Changed
<1>4. CASE Validate
  <2>1. /\ phase = "validating" /\ due = Changed /\ UNCHANGED <<asked, last, told, interrupted>>
        /\ phase' = "sending" => UNCHANGED due
        /\ phase' = "sending" \/ phase' = "idle"
    BY <1>4 DEF Validate, DueInv
  <2>2. CASE phase' = "sending"
    BY <2>1, <2>2, SendingStarts DEF DueInv, Changed
  <2>3. CASE phase' = "idle"
    BY <2>1, <2>3 DEF DueInv, MemoryInv, Told
  <2> QED BY <2>1, <2>2, <2>3
<1>5. CASE WriteDue
  <2>1. UNCHANGED <<asked, last>> /\ phase = "sending" /\ phase' \in {"sending", "idle"} /\ due' \subseteq due
    BY <1>5 DEF WriteDue
  <2> QED BY <1>5, <2>1, WriteRemembers DEF DueInv, Changed
<1>6. CASE EndCall
  <2>1. phase = "sending" /\ due = {} /\ phase' = "idle" /\ last' = asked /\ UNCHANGED <<asked, told, interrupted>>
    BY <1>6 DEF EndCall
  <2> QED BY <2>1 DEF DueInv, MemoryInv, Told
<1>7. CASE (\E k \in Commands : BeginReading(k)) \/ TakeAnswer \/ Timeout
  <2>1. phase # "sending" /\ phase' \in {"idle", "reading"} /\ UNCHANGED <<asked, last, told, interrupted>>
    BY <1>7 DEF BeginReading, TakeAnswer, Timeout
  <2> QED BY <2>1 DEF DueInv, MemoryInv, Told
<1>8. CASE TakeUpload \/ Retry \/ DspThread \/ UNCHANGED tuningVars
  BY <1>1, <1>8 DEF TakeUpload, Retry, DspThread, hostVars, tuningVars
<1> QED BY <1>2, <1>3, <1>4, <1>5, <1>6, <1>7, <1>8 DEF TuningNext

\* For parameters that have words of their own: what ConfigSender remembers as sent
\* is what the stage runs with once all is quiet, however many calls fail in the
\* validation or on their first value, whatever reads time out and however long the
\* queue, until an upload is refused or a call ends half done. (ConfigSender.__call__)
THEOREM MemoryCorrect == ASSUME SettingsApart PROVE TuningSpec => []MemoryIsApplied
<1>1. TuningInit => RememberInv
  BY InitEndInv DEF TuningInit, RememberInv, DueInv, MemoryInv, Tunable
<1>2. RememberInv /\ [TuningNext]_tuningVars => RememberInv'
  BY StepEndInv, StepRemembers DEF RememberInv, EndInv
<1>3. RememberInv => MemoryIsApplied
  <2> SUFFICES ASSUME RememberInv, Quiet, ~interrupted, NEW k \in Tunable, last[k] # NotSent,
                      NEW w \in Tuned(k)
               PROVE  live[w] = last[k]
    BY DEF MemoryIsApplied
  <2>1. w \in Words \ Dynamic
    BY DEF SettingsApart
  <2>2. told[w] = last[k]
    BY DEF RememberInv, MemoryInv, Told, Quiet, Tunable
  <2>3. config[w] = told[w]
    BY <2>1, RequestShape DEF RememberInv, EndInv, SentInv, Quiet, Writing
  <2>4. config[w] = live[w]
    <3>1. \A c \in Controllers : c = Thread
      BY TuningAssumption
    <3> QED BY <2>1, <3>1 DEF RememberInv, EndInv, IInv, ConfigInv, LiveInv, Quiet
  <2> QED BY <2>2, <2>3, <2>4
<1> QED BY <1>1, <1>2, <1>3, PTL DEF TuningSpec

================================================================================
