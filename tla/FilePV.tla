------------------------------- MODULE FilePV -------------------------------
(***************************************************************************)
(* The file based private validator (privval/file.go): the last height,    *)
(* round and step it signed for, kept in memory and in a file, decides     *)
(* whether the next vote or proposal is signed, answered with the old      *)
(* signature or refused.  The process may crash between any two of: the    *)
(* assignments of saveSigned, the write of the file, the return of the     *)
(* signature to the consensus code.                                        *)
(*                                                                         *)
(* A message is what SignBytes encodes: height, round, step (1 propose,    *)
(* 2 prevote, 3 precommit), block and timestamp.  A signature is the       *)
(* message it was made for.                                                *)
(***************************************************************************)
EXTENDS Integers

CONSTANTS SignHeights, SignRounds, Steps, Blocks, Times,
          NoBlock,      \* the zero value: no SignBytes
          MaxResets     \* bound: calls of the unsafe reset command

ASSUME FilePVAssumption ==
  /\ SignHeights \subseteq Nat \ {0} /\ SignRounds \subseteq Nat /\ Steps \subseteq 1..3
  /\ NoBlock \notin Blocks
  /\ MaxResets \in Nat

VARIABLES mem,      \* LastSignState in memory
          file,     \* LastSignState in the state file
          signing,  \* saveSigned is running, or its signature is on its way back
          given,    \* messages given out: [msg, sig, epoch]
          epoch     \* number of resets so far

pvVars == <<mem, file, signing, given, epoch>>

\* What SignBytes encodes.
Request == [height : SignHeights, round : SignRounds, step : Steps, block : Blocks, time : Times]

\* The zero FilePVLastSignState, as GenFilePV and Reset leave it.
Empty == [height |-> 0, round |-> 0, step |-> 0, block |-> NoBlock, time |-> 0]

SameHRS(a, b) == a.height = b.height /\ a.round = b.round /\ a.step = b.step

Before(a, b) ==
  \/ a.height < b.height
  \/ a.height = b.height /\ a.round < b.round
  \/ a.height = b.height /\ a.round = b.round /\ a.step < b.step

\* The step of the last signature counts as new.
CheckHRS_SameStep(m) ==
  IF Before(m, mem) THEN "regression" ELSE "new"

CheckHRS(m) ==
  IF Before(m, mem) THEN "regression" ELSE IF SameHRS(m, mem) THEN "same" ELSE "new"

\* checkVotesOnlyDifferByTimestamp and checkProposalsOnlyDifferByTimestamp.
OnlyDifferByTimestamp(m) == mem.block = m.block

\* A message with its signature reaches the consensus code.
Give(m, sig) == given' = given \cup {[msg |-> m, sig |-> sig, epoch |-> epoch]}

\* signVote, signProposal for the height, round and step signed last: the last
\* signature is given again, the message takes the last timestamp.
Reuse(m) ==
  /\ ~signing /\ CheckHRS(m) = "same" /\ OnlyDifferByTimestamp(m)
  /\ Give([m EXCEPT !.time = mem.time], mem)
  /\ UNCHANGED <<mem, file, signing, epoch>>

\* signVote, signProposal for a later one: sign, then the assignments of saveSigned.
SignNew(m) ==
  /\ ~signing /\ CheckHRS(m) = "new"
  /\ mem' = m
  /\ signing' = TRUE
  /\ UNCHANGED <<file, given, epoch>>

\* LastSignState.Save: WriteFileAtomic replaces the file or leaves the old one.
Save ==
  /\ signing /\ file # mem
  /\ file' = mem
  /\ UNCHANGED <<mem, signing, given, epoch>>

\* The signature is returned, only after the file is written.
Return ==
  /\ signing /\ file = mem
  /\ Give(mem, mem)
  /\ signing' = FALSE
  /\ UNCHANGED <<mem, file, epoch>>

\* The process dies, or Save panics, and LoadFilePV reads the file again.
Reload ==
  /\ mem' = file
  /\ signing' = FALSE
  /\ UNCHANGED <<file, given, epoch>>

\* unsafe_reset_priv_validator, a command of its own that runs while the node is stopped.
Reset ==
  /\ ~signing /\ epoch < MaxResets
  /\ mem' = Empty /\ file' = Empty
  /\ epoch' = epoch + 1
  /\ UNCHANGED <<signing, given>>

PVInit == /\ mem = Empty /\ file = Empty
          /\ signing = FALSE /\ given = {} /\ epoch = 0

PVNext ==
  \/ \E m \in Request : Reuse(m) \/ SignNew(m)
  \/ Save \/ Return \/ Reload \/ Reset

PVSpec == PVInit /\ [][PVNext]_pvVars

-----------------------------------------------------------------------------
\* The types of the state.
PVTypeOK ==
  /\ mem \in Request \cup {Empty} /\ file \in Request \cup {Empty}
  /\ signing \in BOOLEAN
  /\ given \in SUBSET [msg : Request, sig : Request, epoch : 0..MaxResets]
  /\ epoch \in 0..MaxResets

\* Whatever crashes and retries happen, the validator never gives out two different
\* messages for one height, round and step, unless the state file was reset between them.
NoDoubleSign ==
  \A x, y \in given : (SameHRS(x.msg, y.msg) /\ x.epoch = y.epoch) => x.msg = y.msg

\* Every signature given out, the repeated ones too, is for the very message it is attached
\* to: a re-signed vote carries the timestamp its signature covers (signVote, signProposal).
SignatureCoversMessage == \A x \in given : x.sig = x.msg

\* What was given out since the last reset is at or before what the file records: the
\* signature leaves only after Save (saveSigned), so no crash can forget it.
FileRemembers ==
  \A x \in given : x.epoch = epoch => Before(x.msg, file) \/ x.msg = file

\* The record in the file never goes back, a crash and the retries after it included;
\* only the reset command does that.
FileNeverRegresses == [][file' # file => (Before(file, file') \/ epoch' # epoch)]_pvVars
=============================================================================
