--------------------------- MODULE ControlMailbox ---------------------------
(***************************************************************************)
(* What the control interface of one stage promises, without its lock, its *)
(* word-by-word copies and its program counters: a mailbox that holds at   *)
(* most one command.                                                       *)
(*                                                                         *)
(* A controller posts a write whole; the stage applies it whole before the *)
(* mailbox takes another command.  A controller asks for a read; the stage *)
(* answers it with the settings it is running with at that moment, and     *)
(* only the controller that asked collects the answer, for the command it  *)
(* asked with.  StageControl is shown to implement this module.            *)
(***************************************************************************)
EXTENDS Naturals

CONSTANTS
  Controllers,   \* the adsp_controller_t objects, one per control thread
  Words,         \* the words of the stage's config struct
  Commands,      \* the stage's cmd_ids
  CmdWords,      \* the words each command reads or writes
  Values,        \* what a word can hold
  Dynamic,       \* words only the DSP thread changes (a gain, an envelope)
  AllowAbandon,  \* may an application give up a read it has started?
  Nobody,        \* "no controller", the 0 of current_controller
  NoCommand      \* "no command"

VARIABLES
  settings,  \* the settings the controllers see
  applied,   \* the settings the stage runs with
  box,       \* what the mailbox holds
  asker,     \* the controller a pending read belongs to
  askedCmd,  \* the command it asked with
  client,    \* what each controller wants
  buf        \* each controller's payload buffer

vars == <<settings, applied, box, asker, askedCmd, client, buf>>

NoWant == [op |-> "none", cmd |-> NoCommand]

\* The settings after the words of command k are replaced by those of p.
Overlay(base, k, p) ==
  [w \in Words |-> IF w \in CmdWords[k] THEN p[w] ELSE base[w]]

Init ==
  /\ settings \in [Words -> Values]
  /\ applied = settings
  /\ box = "empty"
  /\ asker = Nobody
  /\ askedCmd = NoCommand
  /\ client = [c \in Controllers |-> NoWant]
  /\ buf = [c \in Controllers |-> settings]

WantWrite(c) ==
  /\ client[c] = NoWant
  /\ \E k \in Commands, p \in [Words -> Values] :
       /\ client' = [client EXCEPT ![c] = [op |-> "write", cmd |-> k]]
       /\ buf' = [buf EXCEPT ![c] = p]
  /\ UNCHANGED <<settings, applied, box, asker, askedCmd>>

WantRead(c) ==
  /\ client[c] = NoWant
  /\ \E k \in Commands : client' = [client EXCEPT ![c] = [op |-> "read", cmd |-> k]]
  /\ UNCHANGED <<settings, applied, box, asker, askedCmd, buf>>

GiveUp(c) ==
  /\ AllowAbandon
  /\ client[c].op = "read"
  /\ client' = [client EXCEPT ![c] = NoWant]
  /\ UNCHANGED <<settings, applied, box, asker, askedCmd, buf>>

Post(c) ==
  /\ client[c].op = "write"
  /\ box = "empty"
  /\ settings' = Overlay(settings, client[c].cmd, buf[c])
  /\ box' = "write"
  /\ client' = [client EXCEPT ![c] = NoWant]
  /\ UNCHANGED <<applied, asker, askedCmd, buf>>

Apply ==
  /\ box = "write"
  /\ applied' = [w \in Words |-> IF w \in Dynamic THEN applied[w] ELSE settings[w]]
  /\ box' = "empty"
  /\ UNCHANGED <<settings, asker, askedCmd, client, buf>>

Ask(c) ==
  /\ client[c].op = "read"
  /\ box = "empty"
  /\ box' = "read"
  /\ asker' = c
  /\ askedCmd' = client[c].cmd
  /\ UNCHANGED <<settings, applied, client, buf>>

Answer ==
  /\ box = "read"
  /\ settings' = applied
  /\ box' = "answer"
  /\ UNCHANGED <<applied, asker, askedCmd, client, buf>>

Collect(c) ==
  /\ box = "answer"
  /\ asker = c
  /\ client[c] = [op |-> "read", cmd |-> askedCmd]
  /\ buf' = [buf EXCEPT ![c] = Overlay(buf[c], askedCmd, settings)]
  /\ box' = "empty"
  /\ asker' = Nobody
  /\ askedCmd' = NoCommand
  /\ client' = [client EXCEPT ![c] = NoWant]
  /\ UNCHANGED <<settings, applied>>

\* Between control calls the DSP thread moves its dynamic words.
Drift ==
  /\ \E moved \in [Dynamic -> Values] :
       applied' = [w \in Words |-> IF w \in Dynamic THEN moved[w] ELSE applied[w]]
  /\ UNCHANGED <<settings, box, asker, askedCmd, client, buf>>

Next ==
  \/ \E c \in Controllers :
       WantWrite(c) \/ WantRead(c) \/ GiveUp(c) \/ Post(c) \/ Ask(c) \/ Collect(c)
  \/ Apply \/ Answer \/ Drift

Spec == Init /\ [][Next]_vars
=============================================================================
