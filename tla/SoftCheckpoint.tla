---------------------------- MODULE SoftCheckpoint ----------------------------
(***************************************************************************)
(* softcheckpoint.cpp composed with the block chain of one node: trusted   *)
(* users vote for main chain blocks, a majority makes a block the soft     *)
(* checkpoint, and a node whose main chain misses that block switches to   *)
(* it with SetBestChain, past ConnectBestBlock and its choice by work.     *)
(*                                                                         *)
(* softpc is the step of the routine of softcheckpoint.cpp that holds      *)
(* cs_main and cs_softCP.  While it calls SetBestChain, pc is the step of  *)
(* SetBestChain; otherwise pc is "idle".                                   *)
(***************************************************************************)
EXTENDS BlockChain, FiniteSets

CONSTANTS
  User,                   \* user names
  uniqueUsersList,        \* users whose majority makes a checkpoint
  upcomingUsersList,      \* further users whose votes are counted
  Signer,                 \* the listed user of this node's wallet, if any
  SOFT_CHECKPOINT_PERIOD,
  MaxVotes,               \* bound on "cp" messages received
  BlocksMayFail           \* whether ConnectBlock may refuse a block

NONE == <<0, NULL>>       \* lastSoftCP before the first checkpoint

ASSUME SoftAssumption ==
  /\ uniqueUsersList \subseteq User /\ upcomingUsersList \subseteq User
  /\ IsFiniteSet(uniqueUsersList) /\ uniqueUsersList # {}
  /\ SOFT_CHECKPOINT_PERIOD \in Nat \ {0}
  /\ MaxVotes \in Nat /\ BlocksMayFail \in BOOLEAN

VARIABLES
  lastSoftCP,           \* <<height, hash>>
  lastSoftCPSigs,       \* users whose signatures of lastSoftCP are kept
  nextCandidates,       \* <<checkpoint, user>> pairs
  uncheckedCandidates,  \* the same, received below the last hard checkpoint
  softpc,
  votes

voteVars == <<lastSoftCP, lastSoftCPSigs, nextCandidates, uncheckedCandidates>>
softVars == <<voteVars, softpc, votes>>
allVars  == <<vars, softVars>>

ListedUser == uniqueUsersList \cup upcomingUsersList

GetHighestCheckpoint ==
  CHOOSE h \in {0} \cup {cp[1] : cp \in MapCheckpoints} :
    \A cp \in MapCheckpoints : cp[1] <= h

VotersFor(cp) == {u \in User : <<cp, u>> \in nextCandidates}

IsMajority(users) == Cardinality(users) > Cardinality(uniqueUsersList) \div 2

\* SoftCheckpoints::CheckBlock, which Checkpoints::CheckBlock reaches at the
\* heights of hard checkpoints only.
SoftCheckBlock(h, b) ==
  (\E cp \in MapCheckpoints : cp[1] = h) /\ h = lastSoftCP[1] => b = lastSoftCP[2]

-----------------------------------------------------------------------------
(* Votes *)

\* Slips: anyone's vote, or a vote below the checkpoint, is counted.
Refused_AnyUser(cp, u) ==
  \/ cp[1] % SOFT_CHECKPOINT_PERIOD # 0
  \/ cp[1] < GetHighestCheckpoint
  \/ cp[1] < lastSoftCP[1]

Refused_AnyHeight(cp, u) ==
  \/ cp[1] % SOFT_CHECKPOINT_PERIOD # 0
  \/ cp[1] < GetHighestCheckpoint
  \/ u \notin ListedUser

\* The early returns of CastVoteSoftCheckpoint.
Refused(cp, u) ==
  \/ cp[1] % SOFT_CHECKPOINT_PERIOD # 0
  \/ cp[1] < GetHighestCheckpoint
  \/ cp[1] < lastSoftCP[1]
  \/ u \notin ListedUser

\* The early returns of CastVerifiedVote: the vote is known, or is for another
\* block than the checkpoint of that height.
Repeated(cp, u) ==
  \/ cp[1] = lastSoftCP[1] /\ (u \in lastSoftCPSigs \/ cp # lastSoftCP)
  \/ <<cp, u>> \in nextCandidates

\* Slip: the votes for other candidates survive a win.
NewCheckpoint_KeepsCandidates(cp, u) ==
  /\ lastSoftCP' = cp
  /\ lastSoftCPSigs' = VotersFor(cp) \cup {u}
  /\ nextCandidates' = {c \in nextCandidates : c[1] # cp}

\* A majority makes cp the checkpoint and forgets the other candidates.
NewCheckpoint(cp, u) ==
  /\ lastSoftCP' = cp
  /\ lastSoftCPSigs' = VotersFor(cp) \cup {u}
  /\ nextCandidates' = {}

(* CastVerifiedVote, which continues at step won after a win (there         *)
(* LastSoftCPUpdated calls SetSoftCPBestChain) and at step next otherwise.  *)
CastVerifiedVote(cp, u, won, next) ==
  \/ /\ Repeated(cp, u)
     /\ softpc' = next
     /\ UNCHANGED voteVars
  \/ /\ ~Repeated(cp, u) /\ cp = lastSoftCP
     /\ lastSoftCPSigs' = lastSoftCPSigs \cup {u}
     /\ softpc' = next
     /\ UNCHANGED <<lastSoftCP, nextCandidates, uncheckedCandidates>>
  \/ /\ ~Repeated(cp, u) /\ cp # lastSoftCP
     /\ IF IsMajority(VotersFor(cp) \cup {u})
        THEN NewCheckpoint(cp, u) /\ softpc' = won
        ELSE /\ nextCandidates' = nextCandidates \cup {<<cp, u>>}
             /\ softpc' = next
             /\ UNCHANGED <<lastSoftCP, lastSoftCPSigs>>
     /\ UNCHANGED uncheckedCandidates

CastVoteSoftCheckpoint(cp, u, won, next) ==
  \/ Refused(cp, u) /\ softpc' = next /\ UNCHANGED voteVars
  \/ /\ ~Refused(cp, u) /\ H(pindexBest) < GetHighestCheckpoint
     /\ uncheckedCandidates' = uncheckedCandidates \cup {<<cp, u>>}
     /\ softpc' = next
     /\ UNCHANGED <<lastSoftCP, lastSoftCPSigs, nextCandidates>>
  \/ /\ ~Refused(cp, u) /\ H(pindexBest) >= GetHighestCheckpoint
     /\ CastVerifiedVote(cp, u, won, next)

VotesHeld ==
  {v[1] : v \in nextCandidates \cup uncheckedCandidates} \cup {lastSoftCP}

\* A block's hash commits to its height, which the voters know.
HeightKnown(cp) ==
  /\ cp[2] \in mapBlockIndex => nHeight[cp[2]] = cp[1]
  /\ \A v \in VotesHeld : v[2] = cp[2] => v[1] = cp[1]

(* A "cp" message with a valid signature; an invalid one changes nothing.  *)
ReceiveVote(cp, u) ==
  /\ pc = "idle" /\ softpc = "off"
  /\ votes < MaxVotes
  /\ HeightKnown(cp)
  /\ votes' = votes + 1
  /\ CastVoteSoftCheckpoint(cp, u, "updated", "off")
  /\ UNCHANGED vars

-----------------------------------------------------------------------------
(* SetSoftCPBestChain, in three places: at the start of NewBlockAccepted,  *)
(* when the node's own vote wins, and when a received vote wins.           *)

AfterSwitch == [accepted |-> "vote", voted |-> "clear", updated |-> "off"]

\* The checkpointed block is known but not on the main chain, with which it
\* shares an ancestor.
MissesCheckpoint ==
  /\ lastSoftCP[1] # 0
  /\ lastSoftCP[2] \in mapBlockIndex
  /\ ~IsInMainChain(lastSoftCP[2])
  /\ \E h \in 0..nHeight[lastSoftCP[2]] : IsInMainChain(branch[lastSoftCP[2]][h])

SetSoftCPBestChain ==
  /\ pc = "idle" /\ softpc \in DOMAIN AfterSwitch
  /\ \/ /\ ~MissesCheckpoint
        /\ softpc' = AfterSwitch[softpc]
        /\ UNCHANGED vars
     \/ /\ MissesCheckpoint
        /\ \E f, t \in -1..nHeight[lastSoftCP[2]] :
             f <= t /\ BeginSetBestChain(lastSoftCP[2], f, t)
        /\ UNCHANGED softpc
  /\ UNCHANGED <<voteVars, votes>>

\* Slip: the main chain is left alone.
FinishSoftSwitch_Keeps ==
  /\ pc = "connect" /\ softpc # "off"
  /\ H(view) >= nTop
  /\ coinsTip' = view /\ coinsDB' \in {coinsDB, view}
  /\ pc' = "return" /\ ret' = TRUE
  /\ UNCHANGED <<indexVars, statusVars, vBlockIndexByHeight, pindexBest, attachVars,
                 switchVars, starts, crashes, softVars>>

(* SetBestChain ends for SetSoftCPBestChain: no vAttach to go on with. *)
FinishSoftSwitch ==
  /\ pc = "connect" /\ softpc # "off"
  /\ H(view) >= nTop
  /\ CommitSwitch
  /\ pc' = "return" /\ ret' = TRUE
  /\ UNCHANGED <<indexVars, statusVars, attachVars, switchVars, starts, crashes, softVars>>

\* Slip: a refused switch is tried again.
SoftSwitchReturns_Retries ==
  /\ pc = "return" /\ softpc # "off"
  /\ pc' = "idle" /\ softpc' = IF ret THEN AfterSwitch[softpc] ELSE softpc
  /\ DropLocals
  /\ UNCHANGED <<indexVars, statusVars, mainVars, callVars, crashes, voteVars, votes>>

(* The result of SetBestChain is only logged. *)
SoftSwitchReturns ==
  /\ pc = "return" /\ softpc # "off"
  /\ pc' = "idle" /\ softpc' = AfterSwitch[softpc]
  /\ DropLocals
  /\ UNCHANGED <<indexVars, statusVars, mainVars, callVars, crashes, voteVars, votes>>

-----------------------------------------------------------------------------
(* NewBlockAccepted, after its call of SetSoftCPBestChain *)

VoteDue ==
  /\ H(pindexBest) % SOFT_CHECKPOINT_PERIOD = 0
  /\ H(pindexBest) > GetHighestCheckpoint
  /\ H(pindexBest) >= lastSoftCP[1] + SOFT_CHECKPOINT_PERIOD
  /\ Signer \in ListedUser

\* FindBlockByHeight of the block that this node's user votes for.
OwnVote ==
  LET h == H(pindexBest) - SOFT_CHECKPOINT_PERIOD IN <<h, vBlockIndexByHeight[h]>>

(* The wallet's user signs a vote, unless the wallet cannot sign or the    *)
(* node imports blocks.                                                    *)
Vote ==
  /\ softpc = "vote"
  /\ \/ softpc' = "clear" /\ UNCHANGED voteVars
     \/ VoteDue /\ CastVoteSoftCheckpoint(OwnVote, Signer, "voted", "clear")
  /\ UNCHANGED <<vars, votes>>

ClearUnchecked ==
  /\ softpc = "clear"
  /\ uncheckedCandidates' =
       IF H(pindexBest) > GetHighestCheckpoint THEN {} ELSE uncheckedCandidates
  /\ softpc' = "off"
  /\ UNCHANGED <<vars, lastSoftCP, lastSoftCPSigs, nextCandidates, votes>>

-----------------------------------------------------------------------------
(* The block chain's steps in the composition *)

SoftAcceptBlock(b, p, w) ==
  /\ softpc = "off"
  /\ \A cp \in VotesHeld : cp[2] = b => cp[1] = nHeight[p] + 1
  /\ SoftCheckBlock(nHeight[p] + 1, b)
  /\ AcceptBlock(b, p, w)
  /\ UNCHANGED softVars

(* The steps of SetBestChain, for either caller. *)
SwitchStep ==
  /\ \/ DisconnectBlock \/ DisconnectDone \/ ConnectBlock
     \/ BlocksMayFail /\ ConnectFails
  /\ UNCHANGED softVars

(* ConnectBestBlock for a received block or for the start-up. *)
BestChainStep ==
  /\ softpc = "off"
  /\ NothingToConnect \/ SelectBest \/ AttachDone \/ AttachNext \/ FinishSetBestChain
  /\ UNCHANGED softVars


(* AcceptBlock calls NewBlockAccepted when ConnectBestBlock succeeded;     *)
(* AppInit2 does not.                                                      *)
BestChainReturns ==
  /\ softpc = "off"
  /\ Return
  /\ softpc' = IF starts = 0 /\ ret THEN "accepted" ELSE "off"
  /\ UNCHANGED <<voteVars, votes>>


(* Votes and checkpoint are kept in memory only. *)
Stop ==
  /\ Crash \/ (softpc = "off" /\ Shutdown)
  /\ lastSoftCP' = NONE /\ lastSoftCPSigs' = {}
  /\ nextCandidates' = {} /\ uncheckedCandidates' = {}
  /\ softpc' = "off"
  /\ UNCHANGED votes

SoftInit ==
  /\ Init
  /\ lastSoftCP = NONE /\ lastSoftCPSigs = {}
  /\ nextCandidates = {} /\ uncheckedCandidates = {}
  /\ softpc = "off" /\ votes = 0

SoftHandler ==
  \/ SwitchStep \/ BestChainStep \/ BestChainReturns
  \/ SetSoftCPBestChain \/ FinishSoftSwitch \/ SoftSwitchReturns
  \/ Vote \/ ClearUnchecked

SoftNext ==
  \/ \E b \in Block, p \in mapBlockIndex, w \in BlockWork : SoftAcceptBlock(b, p, w)
  \/ \E h \in 0..Cardinality(Block), b \in Block, u \in User : ReceiveVote(<<h, b>>, u)
  \/ SoftHandler
  \/ Stop
  \/ Restart /\ UNCHANGED softVars

SoftSpec == SoftInit /\ [][SoftNext]_allVars

SoftFairSpec == SoftSpec /\ WF_allVars(SoftHandler) /\ WF_allVars(Restart /\ UNCHANGED softVars)

-----------------------------------------------------------------------------
(* Properties *)

\* The vote tables hold <<checkpoint, user>> pairs, and the routines of
\* softcheckpoint.cpp run only in a running node.
SoftTypeOK ==
  /\ lastSoftCP \in (Nat \X Block) \cup {NONE}
  /\ lastSoftCPSigs \subseteq ListedUser
  /\ nextCandidates \cup uncheckedCandidates \subseteq (Nat \X Block) \X ListedUser
  /\ softpc \in {"off", "vote", "clear"} \cup DOMAIN AfterSwitch
  /\ pc \in {"down", "select", "attach"} => softpc = "off"
  /\ votes \in 0..MaxVotes

\* A checkpoint rests on the votes of a majority, and whatever is still a
\* candidate lies above it, at a height that may be voted for, short of a
\* majority (CastVerifiedVote clears nextCandidates on a win).
CandidatesArePending ==
  /\ lastSoftCP # NONE => IsMajority(lastSoftCPSigs)
  /\ \A v \in nextCandidates :
       /\ v[1][1] > lastSoftCP[1] /\ v[1][1] >= GetHighestCheckpoint
       /\ v[1][1] % SOFT_CHECKPOINT_PERIOD = 0
       /\ ~IsMajority(VotersFor(v[1]))


\* The block that NewBlockAccepted votes for exists (the assertion there) and
\* has the height voted for, also right after a switch to the checkpoint.
VotesForKnownBlock ==
  softpc = "vote" /\ VoteDue =>
    /\ OwnVote[2] \in mapBlockIndex
    /\ OwnVote[1] = nHeight[OwnVote[2]]

\* While the node runs, its checkpoint never moves to a lower height and never
\* to another block of the same height (CastVoteSoftCheckpoint).
CheckpointNeverMovesBack ==
  [][pc' # "down" /\ lastSoftCP' # lastSoftCP => lastSoftCP'[1] > lastSoftCP[1]]_allVars

\* A running node gives up work only for the soft checkpoint, and never gives
\* up height (SetBestChain refuses a shorter list of blocks to connect).
WorkDropsOnlyForCheckpoint ==
  [][pc # "down" =>
       /\ Work(pindexBest)' < Work(pindexBest) => pindexBest' = lastSoftCP[2]
       /\ H(pindexBest)' >= H(pindexBest)]_allVars

\* What CreateNewBlock and the next SetBestChain rely on: pcoinsTip stands at
\* pindexBest (the assertion at the start of ConnectBlock, which CreateNewBlock
\* calls with a block on top of pindexBest and a view on pcoinsTip).
CoinsAtBestBlock == pc = "idle" => coinsTip = pindexBest

\* The switches of softcheckpoint.cpp end as those of ConnectBestBlock do.
SoftHandlersReturn == (pc # "idle" \/ softpc # "off") ~> (pc = "idle" /\ softpc = "off")

=============================================================================
