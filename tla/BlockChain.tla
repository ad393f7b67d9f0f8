------------------------------ MODULE BlockChain ------------------------------
(***************************************************************************)
(* The block index of one node and the choice of its best chain: what      *)
(* main.cpp does between AcceptBlock and the return of ConnectBestBlock,   *)
(* together with an unclean stop at any step and the next start.           *)
(*                                                                         *)
(* cs_main is held from the first to the last step of a handler, so pc     *)
(* forces the steps of one handler to follow each other; a crash is the    *)
(* only thing that can come in between.  What ConnectBlock decides about a *)
(* block's transactions is left open here (any block may fail to connect,  *)
(* at any attempt): NameRegistry refines that decision.                    *)
(***************************************************************************)
EXTENDS Integers

CONSTANTS
  Block,        \* block hashes
  Genesis,      \* Params().HashGenesisBlock()
  NULL,         \* a null CBlockIndex pointer
  BlockWork,    \* the values GetBlockWork may take for one block
  nInterval,    \* blocks between two changes of the difficulty
  MapCheckpoints, \* <<height, hash>> pairs of checkpoints.cpp
  MaxCrashes    \* bound on unclean stops

ASSUME ConstantsAssumption ==
  /\ Genesis \in Block
  /\ NULL \notin Block
  /\ BlockWork \subseteq Nat \ {0}
  /\ nInterval \in Nat \ {0}
  /\ MapCheckpoints \subseteq (Nat \ {0}) \X Block
  /\ MaxCrashes \in Nat

VARIABLES
  mapBlockIndex,        \* hashes with a CBlockIndex (on disk as soon as known)
  nHeight,              \* CBlockIndex::nHeight
  branch,               \* the pprev chain of a block, by height: branch[b][h]
  nChainWork,           \* CBlockIndex::nChainWork
  failed,               \* blocks with nStatus & BLOCK_FAILED_MASK
  setBlockIndexValid,   \* candidates for the best chain
  vBlockIndexByHeight,  \* the main chain, by height
  pindexBest,           \* its tip
  coinsTip,             \* pcoinsTip->GetBestBlock()
  coinsDB,              \* pcoinsdbview->GetBestBlock(): what a restart finds
  pc,                   \* step of the handler that holds cs_main
  ret,                  \* what ConnectBestBlock returned
  starts,               \* calls of ConnectBestBlock made by this start-up; 0 once running
  pindexNewBest,        \* local of ConnectBestBlock
  nAttach,              \* height of the next element of vAttach
  pindexNew,            \* argument of SetBestChain
  nFork,                \* height of pfork, -1 for NULL
  nTop,                 \* height of the last element of vConnect
  view,                 \* best block of SetBestChain's private coins view
  crashes

indexVars  == <<mapBlockIndex, nHeight, branch, nChainWork>>
statusVars == <<failed, setBlockIndexValid>>
mainVars   == <<vBlockIndexByHeight, pindexBest, coinsTip, coinsDB>>
attachVars == <<pindexNewBest, nAttach>>
switchVars == <<pindexNew, nFork, nTop, view>>
callVars   == <<ret, starts>>
vars == <<indexVars, statusVars, mainVars, attachVars, switchVars, callVars,
          pc, crashes>>

-----------------------------------------------------------------------------
(* Reading the index.  A null pointer stands below the genesis block. *)

H(b) == IF b = NULL THEN -1 ELSE nHeight[b]

Work(b) == IF b = NULL THEN 0 ELSE nChainWork[b]

pprev(b) == IF nHeight[b] = 0 THEN NULL ELSE branch[b][nHeight[b] - 1]

IsInMainChain(b) ==
  /\ nHeight[b] \in DOMAIN vBlockIndexByHeight
  /\ vBlockIndexByHeight[nHeight[b]] = b

\* GetNextInMainChain() is not null.
HasNextInMainChain(b) ==
  /\ IsInMainChain(b)
  /\ nHeight[b] + 1 \in DOMAIN vBlockIndexByHeight
  /\ vBlockIndexByHeight[nHeight[b] + 1] # NULL

MainChainOf(b) == IF b = NULL THEN [h \in {} |-> NULL] ELSE branch[b]

\* Slip: a checkpoint compared with the height of the parent.
CheckBlock_OfParent(h, b) == \A cp \in MapCheckpoints : cp[1] = h - 1 => cp[2] = b

\* Checkpoints::CheckBlock for the hard-coded checkpoints.
CheckBlock(h, b) == \A cp \in MapCheckpoints : cp[1] = h => cp[2] = b

OwnWork(b) == nChainWork[b] - Work(pprev(b))

\* GetNextWorkRequired on the main network: the work w of a block is its
\* parent's, or, every nInterval blocks, one that p's ancestry determines.
NextWorkRequired(p, w) ==
  IF (nHeight[p] + 1) % nInterval # 0
  THEN w = OwnWork(p)
  ELSE \A b \in mapBlockIndex : pprev(b) = p => OwnWork(b) = w

-----------------------------------------------------------------------------
(* InitBlockIndex has stored and connected the genesis block.  The coin    *)
(* database is written during the connection or later.                     *)

Init ==
  /\ mapBlockIndex = {Genesis}
  /\ nHeight = [b \in {Genesis} |-> 0]
  /\ branch = [b \in {Genesis} |-> [h \in {0} |-> Genesis]]
  /\ \E w \in BlockWork : nChainWork = [b \in {Genesis} |-> w]
  /\ failed = {}
  /\ setBlockIndexValid = {Genesis}
  /\ vBlockIndexByHeight = [h \in {0} |-> Genesis]
  /\ pindexBest = Genesis
  /\ coinsTip = Genesis
  /\ coinsDB \in {NULL, Genesis}
  /\ pc = "idle" /\ ret = TRUE /\ starts = 0
  /\ pindexNewBest = NULL /\ nAttach = 0
  /\ pindexNew = NULL /\ nFork = -1 /\ nTop = -1 /\ view = NULL
  /\ crashes = 0

(* AcceptBlock refuses a block it knows. *)
RefuseBlock(b) ==
  /\ pc = "idle"
  /\ b \in mapBlockIndex
  /\ UNCHANGED vars

(* AcceptBlock: a new block whose parent p is known passes the contextual  *)
(* checks, is written to disk and added to the index, and ConnectBestBlock *)
(* is called.                                                              *)
AcceptBlock(b, p, w) ==
  LET h == nHeight[p] + 1 IN
  /\ pc = "idle"
  /\ b \notin mapBlockIndex
  /\ p \in mapBlockIndex
  /\ NextWorkRequired(p, w)
  /\ CheckBlock(h, b)
  /\ mapBlockIndex' = mapBlockIndex \cup {b}
  /\ nHeight' = [x \in mapBlockIndex' |-> IF x = b THEN h ELSE nHeight[x]]
  /\ branch' = [x \in mapBlockIndex' |->
                  IF x = b THEN [i \in 0..h |-> IF i = h THEN b ELSE branch[p][i]]
                           ELSE branch[x]]
  /\ nChainWork' = [x \in mapBlockIndex' |->
                      IF x = b THEN nChainWork[p] + w ELSE nChainWork[x]]
  /\ setBlockIndexValid' = setBlockIndexValid \cup {b}
  /\ pc' = "select"
  /\ UNCHANGED <<failed, mainVars, attachVars, switchVars, callVars, crashes>>

-----------------------------------------------------------------------------
(* ConnectBestBlock *)

\* The last elements of setBlockIndexValid up to the order of equal work,
\* which compares hashes.
MostWork ==
  {b \in setBlockIndexValid :
     \A c \in setBlockIndexValid : nChainWork[c] <= nChainWork[b]}

\* Slip: only the candidate itself is looked at.
WalkStopsAt_OnlyTip(c, s) == s = nHeight[c]

\* The ancestry walk from c ends at height s.
WalkStopsAt(c, s) ==
  /\ s = 0 \/ HasNextInMainChain(branch[c][s])
  /\ \A h \in (s + 1)..nHeight[c] : ~HasNextInMainChain(branch[c][h])

NothingToConnect ==
  /\ pc = "select"
  /\ \/ setBlockIndexValid = {}
     \/ \E c \in MostWork : c = pindexBest \/ nChainWork[c] = Work(pindexBest)
  /\ pc' = "return"
  /\ ret' = TRUE
  /\ UNCHANGED <<indexVars, statusVars, mainVars, attachVars, switchVars,
                 starts, crashes>>


(* A failed ancestor: its descendants on the walk are marked, and the      *)
(* outer loop chooses again.                                               *)
MarkDescendants(c, j) ==
  LET bad == {branch[c][h] : h \in (j + 1)..nHeight[c]} IN
  /\ branch[c][j] \in failed
  /\ \A h \in (j + 1)..nHeight[c] : branch[c][h] \notin failed
  /\ failed' = failed \cup bad
  /\ setBlockIndexValid' = setBlockIndexValid \ bad
  /\ UNCHANGED <<indexVars, mainVars, attachVars, switchVars, callVars, pc, crashes>>

\* Slip: what is not lower than the best block is attached, whatever its work.
ChooseBest_ByHeight(c, s, a) ==
  /\ \A h \in s..nHeight[c] : branch[c][h] \notin failed
  /\ \A h \in s..(a - 1) : h < H(pindexBest)
  /\ \A h \in a..nHeight[c] : h >= H(pindexBest)
  /\ pindexNewBest' = c
  /\ nAttach' = a
  /\ pc' = "attach"
  /\ UNCHANGED <<indexVars, statusVars, mainVars, switchVars, callVars, crashes>>

(* No failed ancestor: the blocks of the walk with more work than the best *)
(* block are attached one by one, from height a up.                        *)
ChooseBest(c, s, a) ==
  /\ \A h \in s..nHeight[c] : branch[c][h] \notin failed
  /\ \A h \in s..(a - 1) : nChainWork[branch[c][h]] <= Work(pindexBest)
  /\ \A h \in a..nHeight[c] : nChainWork[branch[c][h]] > Work(pindexBest)
  /\ pindexNewBest' = c
  /\ nAttach' = a
  /\ pc' = "attach"
  /\ UNCHANGED <<indexVars, statusVars, mainVars, switchVars, callVars, crashes>>

SelectBest ==
  /\ pc = "select"
  /\ \E c \in MostWork :
       /\ c # pindexBest /\ nChainWork[c] # Work(pindexBest)
       /\ \E s \in 0..nHeight[c] :
            /\ WalkStopsAt(c, s)
            /\ \/ \E j \in s..nHeight[c] : MarkDescendants(c, j)
               \/ \E a \in s..(nHeight[c] + 1) : ChooseBest(c, s, a)

AttachDone ==
  /\ pc = "attach"
  /\ nAttach > nHeight[pindexNewBest]
  /\ pc' = "return"
  /\ ret' = TRUE
  /\ UNCHANGED <<indexVars, statusVars, mainVars, attachVars, switchVars,
                 starts, crashes>>

-----------------------------------------------------------------------------
(* SetBestChain *)

\* Slip: the walk ends at any common ancestor.
IsFork_AnyCommon(f, a, b) ==
  /\ f <= H(a) /\ f <= H(b)
  /\ f >= 0 => branch[a][f] = branch[b][f]

\* The walk that looks for the fork of a and b ends at height f.
IsFork(f, a, b) ==
  /\ f <= H(a) /\ f <= H(b)
  /\ f >= 0 => branch[a][f] = branch[b][f]
  /\ \A h \in (f + 1)..H(b) : h <= H(a) => branch[a][h] # branch[b][h]

\* vConnect holds the heights f+1..t of the branch of b: what is above the
\* lowest failed block has been dropped.
IsTop(t, f, b) ==
  /\ \A h \in (f + 1)..t : branch[b][h] \notin failed
  /\ t < nHeight[b] => branch[b][t + 1] \in failed

Dropped(t, b) == {branch[b][h] : h \in (t + 1)..nHeight[b]}

\* Slip: a list to connect of any length is good enough.
BeginSetBestChain_AnyLength(new, f, t) ==
  /\ IsFork(f, coinsTip, new)
  /\ IsTop(t, f, new)
  /\ failed' = failed \cup Dropped(t, new)
  /\ setBlockIndexValid' = setBlockIndexValid \ Dropped(t, new)
  /\ pindexNew' = new /\ nFork' = f /\ nTop' = t /\ view' = coinsTip
  /\ pc' = "disconnect"
  /\ UNCHANGED <<indexVars, mainVars, attachVars, callVars, crashes>>

(* Find the fork and list what to disconnect and what to connect; refuse   *)
(* a list to connect that is shorter than the list to disconnect.          *)
BeginSetBestChain(new, f, t) ==
  /\ IsFork(f, coinsTip, new)
  /\ IsTop(t, f, new)
  /\ failed' = failed \cup Dropped(t, new)
  /\ setBlockIndexValid' = setBlockIndexValid \ Dropped(t, new)
  /\ pindexNew' = new /\ nFork' = f /\ nTop' = t /\ view' = coinsTip
  /\ \/ /\ t - f < H(coinsTip) - f
        /\ pc' = "return" /\ ret' = FALSE
     \/ /\ t - f >= H(coinsTip) - f
        /\ pc' = "disconnect" /\ UNCHANGED ret
  /\ UNCHANGED <<indexVars, mainVars, attachVars, starts, crashes>>

AttachNext ==
  /\ pc = "attach"
  /\ nAttach <= nHeight[pindexNewBest]
  /\ \E f \in -1..nHeight[pindexNewBest], t \in -1..nHeight[pindexNewBest] :
       /\ f <= t /\ t <= nAttach
       /\ BeginSetBestChain(branch[pindexNewBest][nAttach], f, t)

DisconnectBlock ==
  /\ pc = "disconnect"
  /\ H(view) > nFork
  /\ view' = pprev(view)
  /\ UNCHANGED <<indexVars, statusVars, mainVars, attachVars, callVars,
                 pindexNew, nFork, nTop, pc, crashes>>

DisconnectDone ==
  /\ pc = "disconnect"
  /\ H(view) = nFork
  /\ pc' = "connect"
  /\ UNCHANGED <<indexVars, statusVars, mainVars, attachVars, switchVars,
                 callVars, crashes>>

\* The block that ConnectBlock is called on next.
NextToConnect == branch[pindexNew][H(view) + 1]

ConnectBlock ==
  /\ pc = "connect"
  /\ H(view) < nTop
  /\ view' = NextToConnect
  /\ UNCHANGED <<indexVars, statusVars, mainVars, attachVars, callVars,
                 pindexNew, nFork, nTop, pc, crashes>>

\* Slips: the genesis block is not exempt, the failed block stays a candidate,
\* or the result of ConnectBlock is ignored.
ConnectFails_GenesisToo ==
  /\ pc = "connect"
  /\ H(view) < nTop
  /\ failed' = failed \cup {NextToConnect}
  /\ setBlockIndexValid' = setBlockIndexValid \ {NextToConnect}
  /\ pc' = "return"
  /\ ret' = FALSE
  /\ UNCHANGED <<indexVars, mainVars, attachVars, switchVars, starts, crashes>>

ConnectFails_KeepsCandidate ==
  /\ pc = "connect"
  /\ H(view) < nTop
  /\ NextToConnect # Genesis
  /\ failed' = failed \cup {NextToConnect}
  /\ pc' = "return"
  /\ ret' = FALSE
  /\ UNCHANGED <<setBlockIndexValid, indexVars, mainVars, attachVars, switchVars,
                 starts, crashes>>

ConnectFails_Ignored ==
  /\ pc = "connect"
  /\ H(view) < nTop
  /\ NextToConnect # Genesis
  /\ failed' = failed \cup {NextToConnect}
  /\ setBlockIndexValid' = setBlockIndexValid \ {NextToConnect}
  /\ view' = NextToConnect
  /\ UNCHANGED <<indexVars, mainVars, attachVars, pindexNew, nFork, nTop, callVars, pc,
                 crashes>>

(* ConnectBlock refuses the block: InvalidBlockFound marks it and the      *)
(* private view is dropped.                                                *)
ConnectFails ==
  /\ pc = "connect"
  /\ H(view) < nTop
  /\ NextToConnect # Genesis
  /\ failed' = failed \cup {NextToConnect}
  /\ setBlockIndexValid' = setBlockIndexValid \ {NextToConnect}
  /\ pc' = "return"
  /\ ret' = FALSE
  /\ UNCHANGED <<indexVars, mainVars, attachVars, switchVars, starts, crashes>>

\* Slip: the first connected block is not entered.
SwitchedMainChain_SkipsFirst ==
  [h \in 0..nHeight[pindexNew] |->
     IF nFork + 1 < h /\ h <= nTop THEN branch[pindexNew][h]
     ELSE IF h \in DOMAIN vBlockIndexByHeight THEN vBlockIndexByHeight[h]
     ELSE NULL]

\* vBlockIndexByHeight.resize(), then one assignment per connected block.
SwitchedMainChain ==
  [h \in 0..nHeight[pindexNew] |->
     IF nFork < h /\ h <= nTop THEN branch[pindexNew][h]
     ELSE IF h \in DOMAIN vBlockIndexByHeight THEN vBlockIndexByHeight[h]
     ELSE NULL]

\* The view goes to pcoinsTip, to the coin database too unless the node is in
\* its initial download, and the main chain is updated.
CommitSwitch ==
  /\ coinsTip' = view
  /\ coinsDB' \in {coinsDB, view}
  /\ vBlockIndexByHeight' = SwitchedMainChain
  /\ pindexBest' = pindexNew

\* Slip: ConnectBestBlock returns after the first attached block.
FinishSetBestChain_ReturnsEarly ==
  /\ pc = "connect"
  /\ H(view) >= nTop
  /\ CommitSwitch
  /\ pc' = "return"
  /\ ret' = TRUE
  /\ UNCHANGED <<indexVars, statusVars, switchVars, attachVars, starts, crashes>>

(* Everything is connected; ConnectBestBlock goes on with vAttach. *)
FinishSetBestChain ==
  /\ pc = "connect"
  /\ H(view) >= nTop
  /\ CommitSwitch
  /\ nAttach' = nAttach + 1
  /\ pc' = "attach"
  /\ UNCHANGED <<indexVars, statusVars, switchVars, callVars, pindexNewBest, crashes>>

-----------------------------------------------------------------------------
\* The locals of ConnectBestBlock and SetBestChain go out of scope.
DropLocals ==
  /\ pindexNewBest' = NULL /\ nAttach' = 0
  /\ pindexNew' = NULL /\ nFork' = -1 /\ nTop' = -1 /\ view' = NULL

(* Return to AcceptBlock, or to AppInit2, which calls ConnectBestBlock a   *)
(* second time before it gives up and shuts down.                          *)
Return ==
  /\ pc = "return"
  /\ \/ /\ starts = 0 \/ ret
        /\ pc' = "idle" /\ starts' = 0 /\ UNCHANGED coinsDB
     \/ /\ starts = 1 /\ ~ret
        /\ pc' = "select" /\ starts' = 2 /\ UNCHANGED coinsDB
     \/ /\ starts = 2 /\ ~ret
        /\ pc' = "down" /\ starts' = 0 /\ coinsDB' = coinsTip
  /\ DropLocals
  /\ UNCHANGED <<indexVars, statusVars, vBlockIndexByHeight, pindexBest, coinsTip,
                 ret, crashes>>

(* The process dies without Shutdown. *)
Crash ==
  /\ pc # "down"
  /\ crashes < MaxCrashes
  /\ crashes' = crashes + 1
  /\ pc' = "down" /\ starts' = 0
  /\ DropLocals
  /\ UNCHANGED <<indexVars, statusVars, mainVars, ret>>

(* Shutdown(): the thread is interrupted between two handlers, or at the    *)
(* interruption point between two calls of SetBestChain; pcoinsTip is      *)
(* flushed.  AppInit2 runs outside the thread group.                       *)
Shutdown ==
  /\ \/ pc = "idle"
     \/ pc = "attach" /\ nAttach <= nHeight[pindexNewBest] /\ starts = 0
  /\ coinsDB' = coinsTip
  /\ pc' = "down"
  /\ DropLocals
  /\ UNCHANGED <<indexVars, statusVars, callVars, vBlockIndexByHeight, pindexBest,
                 coinsTip, crashes>>

(* LoadBlockIndexDB, then the call of ConnectBestBlock in AppInit2. *)
Restart ==
  /\ pc = "down"
  /\ setBlockIndexValid' = mapBlockIndex \ failed
  /\ coinsTip' = coinsDB
  /\ pindexBest' = coinsDB
  /\ vBlockIndexByHeight' = MainChainOf(coinsDB)
  /\ starts' = 1
  /\ pc' = "select"
  /\ UNCHANGED <<indexVars, failed, coinsDB, attachVars, switchVars, ret, crashes>>

Handler ==
  \/ NothingToConnect \/ SelectBest \/ AttachDone \/ AttachNext
  \/ DisconnectBlock \/ DisconnectDone
  \/ ConnectBlock \/ ConnectFails \/ FinishSetBestChain \/ Return

Next ==
  \/ \E b \in Block : RefuseBlock(b)
  \/ \E b \in Block, p \in mapBlockIndex, w \in BlockWork : AcceptBlock(b, p, w)
  \/ Handler
  \/ Crash \/ Shutdown \/ Restart

Spec == Init /\ [][Next]_vars

(* A handler that has started runs to its end, and a node that is down is  *)
(* started again.                                                          *)
FairSpec == Spec /\ WF_vars(Handler) /\ WF_vars(Restart)

-----------------------------------------------------------------------------
(* Properties *)

\* Every variable has the type its C++ counterpart has, and the index is a
\* tree: a branch leads from the genesis block to its block.
TypeOK ==
  /\ mapBlockIndex \subseteq Block /\ Genesis \in mapBlockIndex
  /\ nHeight \in [mapBlockIndex -> Nat]
  /\ DOMAIN branch = mapBlockIndex
  /\ \A b \in mapBlockIndex : branch[b] \in [0..nHeight[b] -> mapBlockIndex]
  /\ nChainWork \in [mapBlockIndex -> Nat \ {0}]
  /\ failed \subseteq mapBlockIndex \ {Genesis}
  /\ setBlockIndexValid \subseteq mapBlockIndex
  /\ vBlockIndexByHeight \in [0..H(pindexBest) -> mapBlockIndex \cup {NULL}]
  /\ {pindexBest, coinsTip, coinsDB, pindexNewBest, pindexNew, view}
       \subseteq mapBlockIndex \cup {NULL}
  /\ pc \in {"idle", "select", "attach", "disconnect", "connect", "return", "down"}
  /\ ret \in BOOLEAN /\ starts \in 0..2
  /\ nAttach \in Nat /\ nFork \in Nat \cup {-1} /\ nTop \in Nat \cup {-1}
  /\ crashes \in 0..MaxCrashes

\* At every step, of a reorganisation too, vBlockIndexByHeight is exactly the
\* ancestry of pindexBest, and pcoinsTip stands at pindexBest (SetBestChain,
\* LoadBlockIndexDB).
MainChainIsBestBranch ==
  /\ vBlockIndexByHeight = MainChainOf(pindexBest)
  /\ coinsTip = pindexBest

\* No block of the main chain is marked failed, whatever blocks fail to connect
\* and however often the node is shut down and started.  An unclean stop can
\* bring back a coin database whose tip has failed since it was written.
NoFailedOnMainChain ==
  crashes = 0 =>
    \A h \in DOMAIN vBlockIndexByHeight : vBlockIndexByHeight[h] \notin failed

\* setBlockIndexValid and the failed marks stay complementary through every
\* path that writes either one; ConnectBestBlock's loop would spin for ever on
\* a failed candidate, which it never erases (main.cpp:48, 1074-1086).
CandidatesAreUnfailed == pc # "down" => setBlockIndexValid = mapBlockIndex \ failed

\* When ConnectBlock is called the view stands at the block's parent (the
\* assertion in ConnectBlock), and the block is not on the main chain, so
\* that InvalidBlockFound never starts a nested ConnectBestBlock.
ConnectsOnTop ==
  pc = "connect" /\ H(view) < nTop =>
    /\ pprev(NextToConnect) = view
    /\ ~IsInMainChain(NextToConnect)

\* Between two handlers no known block whose ancestry holds no failed block has
\* more work than the tip: what ConnectBestBlock promises (main.h:187).
BestIsMostWork ==
  pc = "idle" =>
    \A b \in mapBlockIndex :
      (\A h \in 0..nHeight[b] : branch[b][h] \notin failed) =>
        nChainWork[b] <= Work(pindexBest)

\* A hard checkpoint's height is occupied by the checkpointed block on every
\* main chain that reaches it, whatever reorganisations and restarts happen.
CheckpointsOnMainChain ==
  \A cp \in MapCheckpoints :
    cp[1] \in DOMAIN vBlockIndexByHeight => vBlockIndexByHeight[cp[1]] = cp[2]

\* A running node never moves to a tip with less work (ConnectBestBlock only
\* attaches blocks with more work than the best one).
BestWorkNeverDrops ==
  [][pc # "down" => Work(pindexBest)' >= Work(pindexBest)]_vars


-----------------------------------------------------------------------------
(* The inductive invariant behind the theorems of BlockChainProofs.        *)

\* The index is a tree whose branches extend each other, work grows along a
\* branch, and every block passed the checkpoint test.
TreeInv ==
  /\ nHeight[Genesis] = 0
  /\ \A b \in mapBlockIndex :
       /\ branch[b][nHeight[b]] = b
       /\ CheckBlock(nHeight[b], b)
       /\ \A h \in 0..nHeight[b] :
            /\ nHeight[branch[b][h]] = h
            /\ \A i \in 0..h : branch[branch[b][h]][i] = branch[b][i]
            /\ \A i \in 0..(h - 1) : nChainWork[branch[b][i]] < nChainWork[branch[b][h]]

\* While vAttach is worked off: a failed ancestor of the candidate is on the
\* main chain, and what is left to attach has more work than the tip.
AttachInv ==
  pc \in {"attach", "disconnect", "connect"} =>
    /\ pindexNewBest \in mapBlockIndex
    /\ nAttach <= nHeight[pindexNewBest] + 1
    /\ \A h \in 0..nHeight[pindexNewBest] :
         /\ branch[pindexNewBest][h] \in failed => IsInMainChain(branch[pindexNewBest][h])
         /\ h >= nAttach => nChainWork[branch[pindexNewBest][h]] > Work(pindexBest)

\* Inside SetBestChain nothing has been dropped from vConnect, and the view
\* moves down the old branch to the fork and then up the new one.
SwitchInv ==
  pc \in {"disconnect", "connect"} =>
    /\ nAttach <= nHeight[pindexNewBest]
    /\ pindexNew = branch[pindexNewBest][nAttach]
    /\ nTop = nHeight[pindexNew] /\ H(coinsTip) <= nTop
    /\ IsFork(nFork, coinsTip, pindexNew)
    /\ nFork <= H(view)
    /\ pc = "disconnect" => /\ H(view) <= H(coinsTip)
                            /\ view # NULL => view = branch[coinsTip][nHeight[view]]
    /\ pc = "connect" => /\ H(view) <= nTop
                         /\ view # NULL => view = branch[pindexNew][nHeight[view]]

\* A node that was stopped cleanly left its tip in the coin database.
DiskInv == crashes = 0 /\ pc = "down" => coinsDB = coinsTip

IndInv ==
  /\ TypeOK /\ TreeInv /\ AttachInv /\ SwitchInv /\ DiskInv
  /\ MainChainIsBestBranch /\ NoFailedOnMainChain /\ CandidatesAreUnfailed

=============================================================================
