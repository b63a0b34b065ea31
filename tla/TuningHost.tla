------------------------------ MODULE TuningHost ------------------------------
(* Tuning over xscope, from end to end: ConfigSender and the reads of          *)
(* audio_dsp/tuning, XScopeTransport below them, the adsp_control_xscope       *)
(* thread on the device, and one stage of StageControl, whose only controller  *)
(* that thread is. The host is one sequential program; callbacks of the xscope *)
(* library put answers into read_queue at any moment. The xscope server is     *)
(* external: it keeps the order and may refuse an upload.                      *)
EXTENDS StageControl, Sequences

CONSTANTS
  Thread,            \* the adsp_controller_t of adsp_control_xscope
  Elsewhere,         \* a parameter of another stage
  ConfigOrder,       \* the commands of all the get_config(), in their order
  Settings,          \* the values the designer may give each of them
  Malformed,         \* a value that CommandPayload.to_bytes does not take
  NotSent,           \* no value remembered
  Checksum,          \* the read of the pipeline stage's checksum
  ValidationMode,
  MaxUploads,        \* uploads the server holds for the device
  MaxLate            \* reads that time out before their answer comes

ASSUME TuningAssumption ==
  /\ Controllers = {Thread}
  /\ ConfigOrder \in Seq(Commands \cup {Elsewhere})
  /\ Settings \in [{ConfigOrder[i] : i \in DOMAIN ConfigOrder} -> SUBSET (Values \cup {Malformed})]
  /\ {Malformed, NotSent} \cap Values = {} /\ Malformed # NotSent /\ {Checksum, Elsewhere} \cap Commands = {}
  /\ ValidationMode \in {"once", "always", "never"}
  /\ MaxUploads \in Nat \ {0} /\ MaxLate \in Nat

VARIABLES
  asked,       \* what the get_config() return
  phase,       \* where the host is; it is connected unless it is idle
  due,         \* the commands __call__ has still to write, by their position
  last,        \* _last_config
  validated,   \* _validated
  uploads,     \* published and not yet taken by the device
  answers,     \* read_queue
  reading,     \* the command a read waits for the answer to, or Checksum
  told,        \* history: the words last uploaded, or those of the firmware
  late,        \* history: reads that timed out too early
  interrupted  \* history: an upload was refused, or a call ended with half its writes done

hostVars == <<asked, phase, due, last, validated, uploads, answers, reading, told, late, interrupted>>
tuningVars == <<vars, hostVars>>

Tunable == {ConfigOrder[i] : i \in DOMAIN ConfigOrder}
Tuned(k) == IF k \in Commands THEN CmdWords[k] ELSE {}

-------------------------------------------------------------------------------
(* The host.                                                                   *)

\* The designer changes a parameter.
Tune(k, v) ==
  /\ phase = "idle"
  /\ asked' = [asked EXCEPT ![k] = v]
  /\ UNCHANGED <<vars, phase, due, last, validated, uploads, answers, reading, told, late, interrupted>>

\* Endpoint.publish: the server takes the message or the call returns 1, which
\* write returns and nobody looks at.
Accepted(message) == Len(uploads) < MaxUploads /\ uploads' = Append(uploads, message)
Refused == UNCHANGED uploads

\* XScopeTransport.read up to the wait for the answer.
PublishRead(k) ==
  /\ reading' = k
  /\ Accepted([op |-> "read", cmd |-> k]) \/ Refused

\* ConfigSender.__call__: connect, and validate or start to write what changed.
Changed == {i \in DOMAIN ConfigOrder : last[ConfigOrder[i]] # asked[ConfigOrder[i]]}
Validates == ValidationMode = "always" \/ (ValidationMode = "once" /\ ~validated)

\* mutant: the configs are remembered before they are sent
BeginCallRemembering ==
  /\ phase = "idle"
  /\ due' = Changed
  /\ last' = asked
  /\ IF Validates THEN phase' = "validating" /\ PublishRead(Checksum)
     ELSE phase' = "sending" /\ UNCHANGED <<uploads, reading>>
  /\ UNCHANGED <<vars, asked, validated, answers, told, late, interrupted>>

BeginCall ==
  /\ phase = "idle"
  /\ due' = Changed
  /\ IF Validates THEN phase' = "validating" /\ PublishRead(Checksum)
     ELSE phase' = "sending" /\ UNCHANGED <<uploads, reading>>
  /\ UNCHANGED <<vars, asked, last, validated, answers, told, late, interrupted>>

\* _validate_pipeline_checksum: the next answer in the queue, whatever it
\* answers. Another one does not unpack or compare, and raises.
Validate ==
  /\ phase = "validating" /\ answers # <<>>
  /\ answers' = Tail(answers)
  /\ IF Head(answers).cmd = Checksum
     THEN phase' = "sending" /\ validated' = TRUE /\ UNCHANGED due
     ELSE phase' = "idle" /\ due' = {} /\ UNCHANGED validated
  /\ UNCHANGED <<vars, asked, last, uploads, reading, told, late, interrupted>>

\* CommandPayload.to_bytes: a value of another type or length raises.
Packs(v) == v # Malformed

\* A command is written, its upload is refused, or its value cannot be packed
\* and the call raises: what was written before it stays written.
WriteDue ==
  /\ phase = "sending"
  /\ \E i \in due :
       LET k == ConfigOrder[i]
       IN  /\ \A j \in due : i <= j
           /\ IF ~Packs(asked[k])
              THEN /\ phase' = "idle" /\ due' = {}
                   /\ interrupted' = (interrupted \/ due # Changed)
                   /\ UNCHANGED <<uploads, told>>
              ELSE /\ due' = due \ {i}
                   /\ \/ /\ Accepted([op |-> "write", cmd |-> k, value |-> asked[k]])
                         /\ told' = [w \in Words \ Dynamic |-> IF w \in Tuned(k) THEN asked[k] ELSE told[w]]
                         /\ UNCHANGED interrupted
                      \/ Refused /\ interrupted' = TRUE /\ UNCHANGED told
                   /\ UNCHANGED phase
  /\ UNCHANGED <<vars, asked, last, validated, answers, reading, late>>

EndCall ==
  /\ phase = "sending" /\ due = {}
  /\ last' = asked
  /\ phase' = "idle"
  /\ UNCHANGED <<vars, asked, due, validated, uploads, answers, reading, told, late, interrupted>>

\* A read of a stage, as profile_pipeline makes them.
BeginReading(k) ==
  /\ phase = "idle"
  /\ phase' = "reading"
  /\ PublishRead(k)
  /\ UNCHANGED <<vars, asked, due, last, validated, answers, told, late, interrupted>>

TakeAnswer ==
  /\ phase = "reading" /\ answers # <<>>
  /\ answers' = Tail(answers)
  /\ phase' = "idle" /\ reading' = Checksum
  /\ UNCHANGED <<vars, asked, due, last, validated, uploads, told, late, interrupted>>

\* queue.get gives up after probe_timeout, and the exception ends the call. What
\* was asked for is not taken back, and may still be answered.
AnswerToCome == (\E i \in DOMAIN uploads : uploads[i].op = "read") \/ req[Thread].op = "read"
Timeout ==
  /\ phase \in {"validating", "reading"} /\ answers = <<>>
  /\ IF AnswerToCome THEN late < MaxLate /\ late' = late + 1 ELSE UNCHANGED late
  /\ phase' = "idle" /\ reading' = Checksum /\ due' = {}
  /\ UNCHANGED <<vars, asked, last, validated, uploads, answers, told, interrupted>>

-------------------------------------------------------------------------------
(* The device.                                                                 *)

\* xscope_bytes, and on the host QueueConsumer._consume. An answer nobody is
\* connected for may still be delivered on the next connection.
Deliver(answer) ==
  \/ answers' = Append(answers, answer)
  \/ phase = "idle" /\ UNCHANGED answers

\* adsp_control_xscope_process takes the next message. One for another stage
\* takes no more than time.
TakeUpload ==
  /\ pc[Thread] = "idle" /\ uploads # <<>>
  /\ uploads' = Tail(uploads)
  /\ LET m == Head(uploads)
     IN  IF m.cmd \notin Commands
         THEN /\ IF m.op = "read" THEN Deliver([cmd |-> m.cmd]) ELSE UNCHANGED answers
              /\ UNCHANGED <<pc, req, buf>>
         ELSE /\ req' = [req EXCEPT ![Thread] = [op |-> m.op, cmd |-> m.cmd]]
              /\ buf' = IF m.op = "read" THEN buf
                        ELSE [buf EXCEPT ![Thread] = [w \in Words |-> IF w \in CmdWords[m.cmd] THEN m.value ELSE @[w]]]
              /\ pc' = [pc EXCEPT ![Thread] = "call"]
              /\ UNCHANGED answers
  /\ UNCHANGED <<config, rw, todo, lock, cmdId, owner, abandoned, dspVars>>
  /\ UNCHANGED <<asked, phase, due, last, validated, reading, told, late, interrupted>>

\* The loop around the call: a read that returns SUCCESS is answered.
Answering(places) ==
  IF req[Thread].op = "read" /\ pc[Thread] \in places
  THEN Deliver([cmd |-> req[Thread].cmd, words |-> [w \in CmdWords[req[Thread].cmd] |-> buf[Thread][w]]])
  ELSE UNCHANGED answers

\* mutant: BUSY is answered like SUCCESS
RetryAnswering ==
  /\ Call(Thread) /\ Answering({"unlock_ok", "unlock_busy"})
  /\ UNCHANGED <<asked, phase, due, last, validated, uploads, reading, told, late, interrupted>>

Retry ==
  /\ Call(Thread) /\ Answering({"unlock_ok"})
  /\ UNCHANGED <<asked, phase, due, last, validated, uploads, reading, told, late, interrupted>>

DspThread == (Handle \/ ProcessFrame) /\ UNCHANGED hostVars

-------------------------------------------------------------------------------
\* The firmware was generated from the same design, and has processed nothing.
TuningInit ==
  /\ Init /\ \A w \in Dynamic : config[w] = CHOOSE v \in Values : TRUE
  /\ asked \in [Tunable -> Values] /\ \A k \in Tunable : asked[k] \in Settings[k]
  /\ \A k \in Tunable : \A w \in Tuned(k) : config[w] = asked[k]
  /\ last = [k \in Tunable |-> NotSent]
  /\ phase = "idle" /\ due = {} /\ validated = FALSE
  /\ uploads = <<>> /\ answers = <<>> /\ reading = Checksum
  /\ told = [w \in Words \ Dynamic |-> config[w]] /\ late = 0 /\ interrupted = FALSE

TuningNext ==
  \/ \E k \in Tunable : \E v \in Settings[k] : Tune(k, v)
  \/ BeginCall \/ Validate \/ WriteDue \/ EndCall
  \/ \E k \in Commands : BeginReading(k)
  \/ TakeAnswer \/ Timeout
  \/ TakeUpload \/ Retry \/ DspThread

\* As in StageControl: the thread that spins until SUCCESS keeps running, and the
\* DSP thread calls the handler between frames. The host promises nothing.
TuningSpec ==
  /\ TuningInit /\ [][TuningNext]_tuningVars
  /\ WF_tuningVars(Handle /\ UNCHANGED hostVars)
  /\ WF_tuningVars(Retry)

-------------------------------------------------------------------------------
(* Properties.                                                                 *)

Quiet ==
  /\ phase = "idle" /\ uploads = <<>> /\ pc[Thread] = "idle"
  /\ rw = "none_pending" /\ dpc = "process"

\* What ConfigSender remembers as sent is what the stage runs with once all is
\* quiet, although only changes are sent and calls fail in validation, or on a
\* value, before any is. Not so after a refused upload or a half done call.
MemoryIsApplied ==
  (Quiet /\ ~interrupted) =>
    \A k \in Tunable : last[k] # NotSent => \A w \in Tuned(k) : live[w] = last[k]

\* "a memory of the last configs that were sent to the device"
\* (tuning/__init__.py:68), whatever happened on the way.
MemoryIsSent ==
  Quiet => \A k \in Tunable : last[k] # NotSent => \A w \in Tuned(k) : live[w] = last[k]

\* A read returns the words last written, or those of the firmware: no write of
\* the host overtakes a read or is overtaken, in the server, in the control
\* thread's retries or in the stage, until a read times out.
AnswersTheRead ==
  LET a == Head(answers)
  IN  /\ a.cmd = reading
      /\ \A w \in CmdWords[reading] \ Dynamic : a.words[w] = told[w]
ReadsOwnWrites == [][(TakeAnswer /\ late = 0) => AnswersTheRead]_tuningVars

\* "wait for the reply": the same for reads after one that timed out
\* (xscope.py:122), whose answer the queue still holds or will get.
AnswerToOwnRead == [][TakeAnswer => AnswersTheRead]_tuningVars
===============================================================================
