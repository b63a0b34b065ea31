---------------------------- MODULE StageControl ----------------------------
(***************************************************************************)
(* The control interface of one stage: the module_control_t shared by the  *)
(* control threads, which call adsp_read_module_config and                 *)
(* adsp_write_module_config until they return ADSP_CONTROL_SUCCESS, and by *)
(* the DSP thread, which calls the stage's <name>_control handler between  *)
(* frames.  The control threads exclude each other with a software lock;   *)
(* the DSP thread never takes it: config_rw_state alone hands the config   *)
(* struct from one side to the other.                                      *)
(*                                                                         *)
(* A step is one access the other side can see.  The memcpy of a config    *)
(* struct is one step per word, in any order.  cmd_id and                  *)
(* current_controller are only touched with the lock held, so their        *)
(* assignments are part of the step that stores config_rw_state.           *)
(***************************************************************************)
EXTENDS Naturals

CONSTANTS
  Controllers,   \* the adsp_controller_t objects, one per control thread
  Words,         \* the words of the stage's config struct
  Commands,      \* the stage's cmd_ids
  CmdWords,      \* [Commands -> SUBSET Words]: config_offsets' offset and size
  Values,        \* what a word can hold
  Dynamic,       \* words the DSP thread changes by itself (gain, envelope, max_cycles)
  LateWords,     \* words the handler reads from config after it has released it
  AllowAbandon,  \* may an application stop calling before ADSP_CONTROL_SUCCESS?
  Nobody,        \* current_controller = 0, and the lock being free
  NoCommand      \* no command issued

ASSUME CmdWordsAssumption == CmdWords \in [Commands -> SUBSET Words]
ASSUME WordsAssumption == /\ Dynamic \subseteq Words
                          /\ LateWords \subseteq Words \ Dynamic
ASSUME AbandonAssumption == AllowAbandon \in BOOLEAN
ASSUME NobodyAssumption == Nobody \notin Controllers
ASSUME NoCommandAssumption == NoCommand \notin Commands

VARIABLES
  config,     \* control.config, the struct both sides copy
  rw,         \* control.config_rw_state
  cmdId,      \* control.cmd_id
  owner,      \* control.current_controller
  lock,       \* control.lock: its holder, or Nobody
  pc,         \* where each control thread is
  req,        \* the command each control thread is executing
  buf,        \* its payload buffer
  todo,       \* the words its memcpy has still to copy
  state,      \* the stage's own copy, which answers reads
  live,       \* the settings process() runs with
  dpc,        \* where the DSP thread is
  dtodo,      \* the words the handler has still to copy
  abandoned   \* history: a read was given up after the stage had been asked

controllerVars == <<pc, req, buf, todo, lock, cmdId, owner, abandoned>>
dspVars == <<state, live, dpc, dtodo>>
vars == <<config, rw, controllerVars, dspVars>>

NoRequest == [op |-> "none", cmd |-> NoCommand]
Requests == [op : {"read", "write"}, cmd : Commands] \cup {NoRequest}

\* The control threads that hold the lock are in one of these places.
Holding == {"held", "copyin", "copyout", "unlock_ok", "unlock_busy", "trap"}

Init ==
  /\ config \in [Words -> Values]
  /\ state = config
  /\ live = config
  /\ rw = "none_pending"
  /\ cmdId = NoCommand
  /\ owner = Nobody
  /\ lock = Nobody
  /\ pc = [c \in Controllers |-> "idle"]
  /\ req = [c \in Controllers |-> NoRequest]
  /\ buf = [c \in Controllers |-> config]
  /\ todo = [c \in Controllers |-> {}]
  /\ dpc = "process"
  /\ dtodo = {}
  /\ abandoned = FALSE

-----------------------------------------------------------------------------
(* Faulty variants of actions below, one mistake each.  No action of Next    *)
(* uses them: they show that the properties notice the mistake.              *)

\* BeginWrite that does not wait for the pending command.
BeginWriteUnchecked(c) ==
  /\ pc[c] = "held"
  /\ req[c].op = "write"
  /\ todo' = [todo EXCEPT ![c] = CmdWords[req[c].cmd]]
  /\ pc' = [pc EXCEPT ![c] = "copyin"]
  /\ UNCHANGED <<config, rw, req, buf, lock, cmdId, owner, abandoned, dspVars>>

\* RequestRead that swaps current_controller and cmd_id.
RequestReadSwapped(c) ==
  /\ pc[c] = "held"
  /\ req[c].op = "read"
  /\ rw = "none_pending"
  /\ cmdId' = c
  /\ rw' = "read_pending"
  /\ owner' = req[c].cmd
  /\ pc' = [pc EXCEPT ![c] = "unlock_busy"]
  /\ UNCHANGED <<config, req, buf, todo, lock, abandoned, dspVars>>

\* BeginRead that takes an answer meant for another controller.
BeginReadAnyone(c) ==
  /\ pc[c] = "held"
  /\ req[c].op = "read"
  /\ rw = "read_updated"
  /\ todo' = [todo EXCEPT ![c] = CmdWords[req[c].cmd]]
  /\ pc' = [pc EXCEPT ![c] = IF cmdId = req[c].cmd THEN "copyout" ELSE "trap"]
  /\ UNCHANGED <<config, rw, req, buf, lock, cmdId, owner, abandoned, dspVars>>

\* EndRead that leaves config_rw_state alone.
EndReadNoReset(c) ==
  /\ pc[c] = "copyout"
  /\ todo[c] = {}
  /\ owner' = Nobody
  /\ pc' = [pc EXCEPT ![c] = "unlock_ok"]
  /\ UNCHANGED <<config, rw, req, buf, todo, lock, cmdId, abandoned, dspVars>>

\* EndApply before every word has been copied.
EndApplyEarly ==
  /\ dpc \in {"apply", "late"}
  /\ rw' = IF dpc = "apply" THEN "none_pending" ELSE rw
  /\ dpc' = IF dpc = "apply" /\ LateWords # {} THEN "late" ELSE "process"
  /\ dtodo' = IF dpc = "apply" THEN LateWords ELSE {}
  /\ UNCHANGED <<config, controllerVars, state, live>>

\* BeginPublish by a handler that waits for the lock to be free.
BeginPublishLocked ==
  /\ dpc = "process"
  /\ rw = "read_pending"
  /\ lock = Nobody
  /\ dpc' = "publish"
  /\ dtodo' = Words
  /\ UNCHANGED <<config, rw, controllerVars, state, live>>

-----------------------------------------------------------------------------
(* The application's control thread. *)

\* The application fills a write command and its payload.
IssueWrite(c) ==
  /\ pc[c] = "idle"
  /\ \E k \in Commands, p \in [Words -> Values] :
       /\ req' = [req EXCEPT ![c] = [op |-> "write", cmd |-> k]]
       /\ buf' = [buf EXCEPT ![c] = p]
  /\ pc' = [pc EXCEPT ![c] = "call"]
  /\ UNCHANGED <<config, rw, todo, lock, cmdId, owner, abandoned, dspVars>>

IssueRead(c) ==
  /\ pc[c] = "idle"
  /\ \E k \in Commands : req' = [req EXCEPT ![c] = [op |-> "read", cmd |-> k]]
  /\ pc' = [pc EXCEPT ![c] = "call"]
  /\ UNCHANGED <<config, rw, buf, todo, lock, cmdId, owner, abandoned, dspVars>>

\* The application stops calling although the last call returned BUSY.
Abandon(c) ==
  /\ AllowAbandon
  /\ pc[c] = "call"
  /\ req[c].op = "read"
  /\ req' = [req EXCEPT ![c] = NoRequest]
  /\ pc' = [pc EXCEPT ![c] = "idle"]
  /\ abandoned' = (abandoned \/ owner = c)
  /\ UNCHANGED <<config, rw, buf, todo, lock, cmdId, owner, dspVars>>

-----------------------------------------------------------------------------
(* adsp_read_module_config and adsp_write_module_config. *)

\* swlock_try_acquire succeeds.  When it fails the call returns BUSY and has
\* changed nothing: the caller is still at "call", a stuttering step.
Acquire(c) ==
  /\ pc[c] = "call"
  /\ lock = Nobody
  /\ lock' = c
  /\ pc' = [pc EXCEPT ![c] = "held"]
  /\ UNCHANGED <<config, rw, req, buf, todo, cmdId, owner, abandoned, dspVars>>

\* Write, no command pending: start to copy the payload into config.
BeginWrite(c) ==
  /\ pc[c] = "held"
  /\ req[c].op = "write"
  /\ rw = "none_pending"
  /\ todo' = [todo EXCEPT ![c] = CmdWords[req[c].cmd]]
  /\ pc' = [pc EXCEPT ![c] = "copyin"]
  /\ UNCHANGED <<config, rw, req, buf, lock, cmdId, owner, abandoned, dspVars>>

CopyIn(c) ==
  /\ pc[c] = "copyin"
  /\ \E w \in todo[c] :
       /\ config' = [config EXCEPT ![w] = buf[c][w]]
       /\ todo' = [todo EXCEPT ![c] = @ \ {w}]
  /\ UNCHANGED <<rw, pc, req, buf, lock, cmdId, owner, abandoned, dspVars>>

\* The payload is in place: tell the DSP thread and succeed.
EndWrite(c) ==
  /\ pc[c] = "copyin"
  /\ todo[c] = {}
  /\ cmdId' = req[c].cmd
  /\ rw' = "write_pending"
  /\ pc' = [pc EXCEPT ![c] = "unlock_ok"]
  /\ UNCHANGED <<config, req, buf, todo, lock, owner, abandoned, dspVars>>

\* Read, no command pending: ask the DSP thread to refresh config; BUSY.
RequestRead(c) ==
  /\ pc[c] = "held"
  /\ req[c].op = "read"
  /\ rw = "none_pending"
  /\ cmdId' = req[c].cmd
  /\ rw' = "read_pending"
  /\ owner' = c
  /\ pc' = [pc EXCEPT ![c] = "unlock_busy"]
  /\ UNCHANGED <<config, req, buf, todo, lock, abandoned, dspVars>>

\* Read, config refreshed for this controller: start to copy the answer.
\* xassert stops the program when the answer is to another command.
BeginRead(c) ==
  /\ pc[c] = "held"
  /\ req[c].op = "read"
  /\ rw = "read_updated"
  /\ owner = c
  /\ IF cmdId = req[c].cmd
       THEN /\ todo' = [todo EXCEPT ![c] = CmdWords[req[c].cmd]]
            /\ pc' = [pc EXCEPT ![c] = "copyout"]
       ELSE /\ pc' = [pc EXCEPT ![c] = "trap"]
            /\ UNCHANGED todo
  /\ UNCHANGED <<config, rw, req, buf, lock, cmdId, owner, abandoned, dspVars>>

CopyOut(c) ==
  /\ pc[c] = "copyout"
  /\ \E w \in todo[c] :
       /\ buf' = [buf EXCEPT ![c] = [@ EXCEPT ![w] = config[w]]]
       /\ todo' = [todo EXCEPT ![c] = @ \ {w}]
  /\ UNCHANGED <<config, rw, pc, req, lock, cmdId, owner, abandoned, dspVars>>

EndRead(c) ==
  /\ pc[c] = "copyout"
  /\ todo[c] = {}
  /\ rw' = "none_pending"
  /\ owner' = Nobody
  /\ pc' = [pc EXCEPT ![c] = "unlock_ok"]
  /\ UNCHANGED <<config, req, buf, todo, lock, cmdId, abandoned, dspVars>>

\* The stage is busy with another command, or the answer is not for this
\* controller: BUSY, nothing changed.
Refuse(c) ==
  /\ pc[c] = "held"
  /\ rw # "none_pending"
  /\ ~(req[c].op = "read" /\ rw = "read_updated" /\ owner = c)
  /\ pc' = [pc EXCEPT ![c] = "unlock_busy"]
  /\ UNCHANGED <<config, rw, req, buf, todo, lock, cmdId, owner, abandoned, dspVars>>

\* swlock_release and return; BUSY makes the caller call again.
Release(c) ==
  /\ \/ /\ pc[c] = "unlock_ok"
        /\ pc' = [pc EXCEPT ![c] = "idle"]
        /\ req' = [req EXCEPT ![c] = NoRequest]
     \/ /\ pc[c] = "unlock_busy"
        /\ pc' = [pc EXCEPT ![c] = "call"]
        /\ UNCHANGED req
  /\ lock' = Nobody
  /\ UNCHANGED <<config, rw, buf, todo, cmdId, owner, abandoned, dspVars>>

-----------------------------------------------------------------------------
(* The DSP thread: <name>_control(state, control), called between frames. *)

\* process() moves the dynamic words of the stage's state.
ProcessFrame ==
  /\ dpc = "process"
  /\ \E moved \in [Dynamic -> Values] :
       /\ state' = [w \in Words |-> IF w \in Dynamic THEN moved[w] ELSE state[w]]
       /\ live' = [w \in Words |-> IF w \in Dynamic THEN moved[w] ELSE live[w]]
  /\ UNCHANGED <<config, rw, controllerVars, dpc, dtodo>>

BeginApply ==
  /\ dpc = "process"
  /\ rw = "write_pending"
  /\ dpc' = "apply"
  /\ dtodo' = Words \ Dynamic
  /\ UNCHANGED <<config, rw, controllerVars, state, live>>

\* The pass over config fills the stage's copy and what process() uses of it.
\* biquad_slew and switch_slew go over their LateWords again, for process(),
\* after they have cleared config_rw_state.
ApplyWord ==
  /\ dpc \in {"apply", "late"}
  /\ \E w \in dtodo :
       /\ state' = [state EXCEPT ![w] = IF dpc = "apply" THEN config[w] ELSE @]
       /\ live' = [live EXCEPT ![w] = IF dpc = "apply" /\ w \in LateWords THEN @ ELSE config[w]]
       /\ dtodo' = dtodo \ {w}
  /\ UNCHANGED <<config, rw, controllerVars, dpc>>

EndApply ==
  /\ dpc \in {"apply", "late"}
  /\ dtodo = {}
  /\ rw' = IF dpc = "apply" THEN "none_pending" ELSE rw
  /\ dpc' = IF dpc = "apply" /\ LateWords # {} THEN "late" ELSE "process"
  /\ dtodo' = IF dpc = "apply" THEN LateWords ELSE {}
  /\ UNCHANGED <<config, controllerVars, state, live>>

BeginPublish ==
  /\ dpc = "process"
  /\ rw = "read_pending"
  /\ dpc' = "publish"
  /\ dtodo' = Words
  /\ UNCHANGED <<config, rw, controllerVars, state, live>>

PublishWord ==
  /\ dpc = "publish"
  /\ \E w \in dtodo :
       /\ config' = [config EXCEPT ![w] = state[w]]
       /\ dtodo' = dtodo \ {w}
  /\ UNCHANGED <<rw, controllerVars, state, live, dpc>>

EndPublish ==
  /\ dpc = "publish"
  /\ dtodo = {}
  /\ rw' = "read_updated"
  /\ dpc' = "process"
  /\ UNCHANGED <<config, controllerVars, state, live, dtodo>>

-----------------------------------------------------------------------------
\* One call of the control API, from the try for the lock to its return.
Call(c) ==
  \/ Acquire(c) \/ BeginWrite(c) \/ CopyIn(c) \/ EndWrite(c)
  \/ RequestRead(c) \/ BeginRead(c) \/ CopyOut(c) \/ EndRead(c)
  \/ Refuse(c) \/ Release(c)

\* The stage's control handler.
Handle ==
  \/ BeginApply \/ ApplyWord \/ EndApply
  \/ BeginPublish \/ PublishWord \/ EndPublish

Next ==
  \/ \E c \in Controllers : IssueWrite(c) \/ IssueRead(c) \/ Abandon(c) \/ Call(c)
  \/ Handle
  \/ ProcessFrame

Spec == Init /\ [][Next]_vars

\* The DSP loop runs every control handler at least once per frame and while
\* it waits for audio; a control thread in a call, or in the retry loop the
\* API asks for, keeps executing.  Nothing makes it issue a command, and
\* nothing makes a try for a contended lock succeed.
Fairness == WF_vars(Handle) /\ \A c \in Controllers : WF_vars(Call(c))

FairSpec == Spec /\ Fairness

-----------------------------------------------------------------------------
(* Properties *)

TypeOK ==
  /\ config \in [Words -> Values]
  /\ rw \in {"none_pending", "write_pending", "read_pending", "read_updated"}
  /\ cmdId \in Commands \cup {NoCommand}
  /\ owner \in Controllers \cup {Nobody}
  /\ lock \in Controllers \cup {Nobody}
  /\ pc \in [Controllers -> {"idle", "call"} \cup Holding]
  /\ req \in [Controllers -> Requests]
  /\ buf \in [Controllers -> [Words -> Values]]
  /\ todo \in [Controllers -> SUBSET Words]
  /\ state \in [Words -> Values]
  /\ live \in [Words -> Values]
  /\ dpc \in {"process", "apply", "late", "publish"}
  /\ dtodo \in SUBSET Words
  /\ abandoned \in BOOLEAN

\* The config struct is never in the hands of both sides: while the handler
\* has words of it to read or to write, no control thread is inside its
\* memcpy, although the DSP thread takes no lock.
NoConfigRace ==
  (dpc \in {"apply", "publish"} \/ dtodo # {})
    => \A c \in Controllers : pc[c] \notin {"copyin", "copyout"}

\* When nothing is pending and no memcpy is running, the stage runs with
\* exactly the settings the controllers wrote: no successful write was lost,
\* torn or applied in part, and reads have not disturbed the settings.
SettledAgreement ==
  (rw = "none_pending" /\ dpc = "process" /\ \A c \in Controllers : pc[c] # "copyin")
    => \A w \in Words \ Dynamic : config[w] = state[w] /\ live[w] = state[w]

\* The settings process() runs with are those a read reports: both copies the
\* handler makes of one write are copies of the same write.
LiveMatchesState == dpc = "process" => live = state

\* "Confirm same cmd_id": as long as no caller has given up a read the stage
\* was asked for, the xassert of adsp_read_module_config does not stop the
\* program, whatever the other controllers do between the two calls.
NoTrap == ~abandoned => \A c \in Controllers : pc[c] # "trap"

\* The DSP thread takes every command off the stage's hands, however the
\* control threads contend.
StageDrains == rw \in {"write_pending", "read_pending"} ~> rw \in {"none_pending", "read_updated"}

\* A control thread that keeps calling gets ADSP_CONTROL_SUCCESS.
CommandCompletes == \A c \in Controllers : pc[c] = "call" ~> pc[c] = "idle"

-----------------------------------------------------------------------------
(* Refinement.  A write takes effect for the controllers when its memcpy    *)
(* starts and for the stage when the handler sees it; a read is answered    *)
(* when the handler sees it and delivered when its memcpy starts.           *)

Copying(place) == \E c \in Controllers : pc[c] = place

\* The controllers whose memcpy has still to bring word w.
Bringing(w) == {c \in Controllers : pc[c] = "copyin" /\ w \in todo[c]}
Bringer(w) == CHOOSE c \in Bringing(w) : TRUE

AbsSettings ==
  [w \in Words |->
    IF Bringing(w) # {} THEN buf[Bringer(w)][w]
      ELSE IF dpc = "publish" /\ w \in dtodo THEN state[w] ELSE config[w]]

AbsApplied ==
  [w \in Words |-> IF dpc = "apply" /\ w \in dtodo THEN config[w] ELSE live[w]]

AbsBox ==
  IF Copying("copyin") THEN "write"
  ELSE IF Copying("copyout") \/ dpc = "apply" THEN "empty"
  ELSE IF dpc = "publish" THEN "answer"
  ELSE [none_pending |-> "empty", write_pending |-> "write",
        read_pending |-> "read", read_updated |-> "answer"][rw]

AbsAsker == IF Copying("copyout") THEN Nobody ELSE owner
AbsAskedCmd == IF AbsAsker = Nobody THEN NoCommand ELSE cmdId

AbsClient ==
  [c \in Controllers |->
    IF pc[c] \in {"copyin", "copyout", "unlock_ok"} THEN NoRequest ELSE req[c]]

AbsBuf ==
  [c \in Controllers |->
    [w \in Words |-> IF pc[c] = "copyout" /\ w \in todo[c] THEN config[w] ELSE buf[c][w]]]

Mailbox == INSTANCE ControlMailbox
  WITH settings <- AbsSettings, applied <- AbsApplied, box <- AbsBox,
       asker <- AbsAsker, askedCmd <- AbsAskedCmd, client <- AbsClient, buf <- AbsBuf

\* Commands are executed one at a time and whole: the lock, the four states
\* of config_rw_state and the word-by-word copies implement the mailbox.
ImplementsMailbox == Mailbox!Spec
=============================================================================
