--------------------------- MODULE BlockChainProofs ---------------------------
(* Proofs about BlockChain, for every set of blocks, work and checkpoints. *)
EXTENDS BlockChainLemmas

\* vConnect is complete: a failed block above the fork would be on the main
\* chain, and no block above the fork is.
LEMMA NothingDropped ==
  ASSUME IndInv, pc = "attach", nAttach <= nHeight[pindexNewBest],
         NEW f \in -1..nHeight[pindexNewBest], NEW t \in -1..nHeight[pindexNewBest],
         f <= t, t <= nAttach, NEW new, new = branch[pindexNewBest][nAttach],
         IsFork(f, coinsTip, new), IsTop(t, f, new)
  PROVE  /\ new \in mapBlockIndex /\ nHeight[new] = nAttach /\ nAttach \in Nat
         /\ t = nAttach
<1>0. TypeOK /\ TreeInv /\ AttachInv /\ MainChainIsBestBranch
  BY DEF IndInv
<1>1. pindexNewBest \in mapBlockIndex /\ nAttach \in Nat /\ nHeight[pindexNewBest] \in Nat
  BY <1>0 DEF AttachInv, TypeOK
<1>2. nAttach \in 0..nHeight[pindexNewBest]
  BY <1>1
<1>3. branch[pindexNewBest] \in [0..nHeight[pindexNewBest] -> mapBlockIndex]
  BY <1>0, <1>1 DEF TypeOK
<1>4. new \in mapBlockIndex
  BY <1>2, <1>3
<1>5. /\ nHeight[new] = nAttach
      /\ \A i \in 0..nAttach : branch[new][i] = branch[pindexNewBest][i]
  BY <1>0, <1>1, <1>2 DEF TreeInv
<1>6. SUFFICES ASSUME t < nAttach PROVE FALSE
  BY <1>1, <1>4, <1>5
<1>7. t + 1 \in 0..nAttach /\ t + 1 \in 0..nHeight[pindexNewBest] /\ f \in Int /\ t \in Int
  BY <1>1, <1>6
<1>8. branch[new][t + 1] \in failed /\ branch[new][t + 1] = branch[pindexNewBest][t + 1]
  BY <1>5, <1>6, <1>7 DEF IsTop
<1>9. IsInMainChain(branch[new][t + 1]) /\ branch[new][t + 1] \in mapBlockIndex
  BY <1>0, <1>3, <1>7, <1>8 DEF AttachInv
<1>10. nHeight[branch[new][t + 1]] = t + 1
  BY <1>0, <1>4, <1>5, <1>7 DEF TreeInv
<1>11. /\ pindexBest \in mapBlockIndex /\ t + 1 <= nHeight[pindexBest]
       /\ branch[pindexBest][t + 1] = branch[new][t + 1]
  BY <1>0, <1>9, <1>10, InMain
<1>12. coinsTip = pindexBest /\ H(coinsTip) = nHeight[pindexBest] /\ H(new) = nAttach
  BY <1>0, <1>4, <1>5, <1>11, NullUnknown DEF MainChainIsBestBranch, H
<1>13. t + 1 \in (f + 1)..H(new)
  BY <1>7, <1>12
<1> QED BY <1>11, <1>12, <1>13 DEF IsFork

LEMMA AttachNextInd ==
  ASSUME IndInv, AttachNext
  PROVE  IndInv'
<1>0. /\ TypeOK /\ TreeInv /\ AttachInv /\ DiskInv /\ MainChainIsBestBranch
      /\ NoFailedOnMainChain /\ CandidatesAreUnfailed
      /\ pc = "attach" /\ nAttach <= nHeight[pindexNewBest]
  BY DEF IndInv, AttachNext
<1>1. PICK f \in -1..nHeight[pindexNewBest], t \in -1..nHeight[pindexNewBest] :
        /\ f <= t /\ t <= nAttach
        /\ BeginSetBestChain(branch[pindexNewBest][nAttach], f, t)
  BY DEF AttachNext
<1> DEFINE new == branch[pindexNewBest][nAttach]
<1>2. IsFork(f, coinsTip, new) /\ IsTop(t, f, new)
  BY <1>1 DEF BeginSetBestChain
<1>3. new \in mapBlockIndex /\ nHeight[new] = nAttach /\ nAttach \in Nat /\ t = nAttach
  BY <1>0, <1>1, <1>2, NothingDropped
<1>4. Dropped(t, new) = {}
  BY <1>3 DEF Dropped
<1>5. /\ pindexNew' = new /\ nFork' = f /\ nTop' = t /\ view' = coinsTip
      /\ failed' = failed /\ setBlockIndexValid' = setBlockIndexValid
      /\ UNCHANGED <<mapBlockIndex, nHeight, branch, nChainWork, vBlockIndexByHeight,
                     pindexBest, coinsTip, coinsDB, pindexNewBest, nAttach, starts, crashes>>
  BY <1>1, <1>4 DEF BeginSetBestChain, indexVars, mainVars, attachVars
<1>6. \/ pc' = "return" /\ ret' = FALSE
      \/ pc' = "disconnect" /\ ret' = ret /\ t - f >= H(coinsTip) - f
  BY <1>1 DEF BeginSetBestChain
<1>7. f \in Int /\ -1 <= f /\ f \in Nat \cup {-1} /\ t \in Nat
  BY <1>1, <1>3
<1> HIDE DEF new
<1>8. TypeOK'
  <2>1. H(pindexBest)' = H(pindexBest)
    BY <1>5 DEF H
  <2>2. ({pindexBest, coinsTip, coinsDB, pindexNewBest, pindexNew, view}
            \subseteq mapBlockIndex \cup {NULL})'
    BY <1>0, <1>3, <1>5 DEF TypeOK
  <2>3. ret' \in BOOLEAN /\ pc' \in {"return", "disconnect"}
    BY <1>0, <1>6 DEF TypeOK
  <2> QED BY <2>1, <2>2, <2>3, <1>0, <1>3, <1>5, <1>7 DEF TypeOK
<1>9. TreeInv' /\ MainChainIsBestBranch'
  BY <1>0, <1>5, TreeKept, MainChainKept
<1>10. AttachInv'
  BY <1>0, <1>5, AttachKept
<1>11. SwitchInv'
  <2>1. coinsTip \in mapBlockIndex \cup {NULL} /\ H(coinsTip) \in Int
    <3>1. coinsTip \in mapBlockIndex \cup {NULL} /\ nHeight \in [mapBlockIndex -> Nat]
      BY <1>0 DEF TypeOK
    <3> QED BY <3>1 DEF H
  <2>2. SUFFICES ASSUME pc' = "disconnect" PROVE SwitchInv'
    BY <1>6 DEF SwitchInv
  <2>3. H(coinsTip) <= t
    BY <1>6, <1>7, <2>1, <2>2
  <2>4. f <= H(coinsTip)
    BY <1>2 DEF IsFork
  <2>5. coinsTip # NULL => coinsTip = branch[coinsTip][nHeight[coinsTip]]
    <3> SUFFICES ASSUME coinsTip # NULL
                 PROVE  coinsTip = branch[coinsTip][nHeight[coinsTip]]
      OBVIOUS
    <3>1. coinsTip \in mapBlockIndex
      BY <2>1
    <3> QED BY <3>1, <1>0 DEF TreeInv
  <2>6. H(coinsTip)' = H(coinsTip) /\ H(view)' = H(coinsTip) /\ nHeight'[pindexNew'] = nAttach
    BY <1>3, <1>5 DEF H
  <2>7. IsFork(nFork, coinsTip, pindexNew)'
    BY <1>2, <1>5 DEF IsFork, H
  <2> QED BY <1>0, <1>3, <1>5, <2>1, <2>2, <2>3, <2>4, <2>5, <2>6, <2>7 DEF SwitchInv, new
<1>12. DiskInv' /\ NoFailedOnMainChain' /\ CandidatesAreUnfailed'
  BY <1>0, <1>5, <1>6 DEF DiskInv, NoFailedOnMainChain, CandidatesAreUnfailed
<1> QED BY <1>8, <1>9, <1>10, <1>11, <1>12 DEF IndInv


LEMMA DisconnectBlockInd ==
  ASSUME IndInv, DisconnectBlock
  PROVE  IndInv'
<1>0. /\ TypeOK /\ TreeInv /\ AttachInv /\ SwitchInv /\ DiskInv
      /\ MainChainIsBestBranch /\ NoFailedOnMainChain /\ CandidatesAreUnfailed
  BY DEF IndInv
<1>1. /\ pc = "disconnect" /\ H(view) > nFork /\ view' = pprev(view)
      /\ UNCHANGED <<mapBlockIndex, nHeight, branch, nChainWork, failed,
                     setBlockIndexValid, vBlockIndexByHeight, pindexBest, coinsTip,
                     coinsDB, pindexNewBest, nAttach, pindexNew, nFork, nTop, ret,
                     starts, pc, crashes>>
  BY DEF DisconnectBlock, indexVars, statusVars, mainVars, attachVars, callVars
<1>2. /\ view \in mapBlockIndex /\ nHeight[view] \in Nat /\ nFork < nHeight[view]
      /\ nFork \in Int /\ -1 <= nFork /\ H(view) = nHeight[view] /\ view # NULL
  <2>1. nFork \in Int /\ -1 <= nFork /\ view \in mapBlockIndex \cup {NULL} /\ H(view) \in Int
    BY <1>1, SwitchFacts
  <2>2. view # NULL
    BY <1>1, <2>1 DEF H
  <2> QED BY <1>0, <1>1, <2>1, <2>2 DEF TypeOK, H
<1>3. /\ view = branch[coinsTip][nHeight[view]] /\ nHeight[view] <= H(coinsTip)
      /\ H(coinsTip) \in Int
  BY <1>0, <1>1, <1>2, SwitchFacts DEF SwitchInv
<1>4. coinsTip \in mapBlockIndex /\ H(coinsTip) = nHeight[coinsTip]
  BY <1>0, <1>2, <1>3 DEF TypeOK, H
<1>5. /\ view' \in mapBlockIndex \cup {NULL} /\ H(view)' = nHeight[view] - 1
      /\ view' # NULL => view' = branch[coinsTip][nHeight[view] - 1]
  <2>1. CASE nHeight[view] = 0
    BY <2>1, <1>1 DEF pprev, H
  <2>2. CASE nHeight[view] # 0
    <3>1. nHeight[view] - 1 \in 0..nHeight[view] /\ nHeight[view] \in 0..nHeight[coinsTip]
      BY <1>2, <1>3, <1>4, <2>2
    <3>2. branch[view] \in [0..nHeight[view] -> mapBlockIndex]
      BY <1>0, <1>2 DEF TypeOK
    <3>3. view' = branch[view][nHeight[view] - 1] /\ view' \in mapBlockIndex
      BY <1>1, <2>2, <3>1, <3>2 DEF pprev
    <3>4. nHeight[view'] = nHeight[view] - 1
      BY <1>0, <1>2, <3>1, <3>3 DEF TreeInv
    <3>5. view' = branch[coinsTip][nHeight[view] - 1]
      BY <1>0, <1>3, <1>4, <3>1, <3>3 DEF TreeInv
    <3>6. view' # NULL
      BY <1>0, <3>3, NullUnknown
    <3> QED BY <3>3, <3>4, <3>5, <3>6, <1>1 DEF H
  <2> QED BY <2>1, <2>2
<1>6. TypeOK'
  <2>1. view' \in mapBlockIndex \cup {NULL} /\ H(pindexBest)' = H(pindexBest)
    BY <1>1, <1>5 DEF H
  <2>2. ({pindexBest, coinsTip, coinsDB, pindexNewBest, pindexNew, view}
            \subseteq mapBlockIndex \cup {NULL})'
    BY <1>0, <1>1, <2>1 DEF TypeOK
  <2> QED BY <1>0, <1>1, <2>1, <2>2 DEF TypeOK
<1>7. TreeInv' /\ MainChainIsBestBranch'
  BY <1>0, <1>1, TreeKept, MainChainKept
<1>8. AttachInv'
  BY <1>0, <1>1, AttachKept
<1>9. SwitchInv'
  <2>1. view' # NULL => H(view)' = nHeight'[view']
    BY DEF H
  <2>2. H(coinsTip)' = H(coinsTip) /\ IsFork(nFork, coinsTip, pindexNew)'
    BY <1>0, <1>1 DEF SwitchInv, IsFork, H
  <2>3. nFork' <= H(view)' /\ H(view)' <= H(coinsTip)'
    BY <1>1, <1>2, <1>3, <1>5, <2>2
  <2> QED BY <1>0, <1>1, <1>2, <1>5, <2>1, <2>2, <2>3 DEF SwitchInv
<1>10. DiskInv' /\ NoFailedOnMainChain' /\ CandidatesAreUnfailed'
  BY <1>0, <1>1 DEF DiskInv, NoFailedOnMainChain, CandidatesAreUnfailed
<1> QED BY <1>6, <1>7, <1>8, <1>9, <1>10 DEF IndInv

\* The block ConnectBlock is called on: the one above the view on the new
\* branch, which is above the fork and so not on the main chain.
LEMMA ConnectFacts ==
  ASSUME IndInv, pc = "connect", H(view) < nTop
  PROVE  /\ NextToConnect \in mapBlockIndex /\ NextToConnect # NULL
         /\ H(view) + 1 \in 0..nTop
         /\ nHeight[NextToConnect] = H(view) + 1
         /\ pprev(NextToConnect) = view
         /\ ~IsInMainChain(NextToConnect)
<1>0. TypeOK /\ TreeInv /\ SwitchInv /\ MainChainIsBestBranch
  BY DEF IndInv
<1>1. /\ pindexNew \in mapBlockIndex /\ nHeight[pindexNew] = nTop /\ nTop \in Nat
      /\ nFork \in Int /\ -1 <= nFork /\ H(view) \in Int /\ nFork <= H(view)
      /\ view \in mapBlockIndex \cup {NULL}
      /\ branch[pindexNew] \in [0..nTop -> mapBlockIndex] /\ pindexNew # NULL
  BY SwitchFacts
<1>2. H(view) + 1 \in 0..nTop
  BY <1>1
<1>3. NextToConnect \in mapBlockIndex /\ nHeight[NextToConnect] = H(view) + 1
  BY <1>0, <1>1, <1>2 DEF NextToConnect, TreeInv
<1>4. NextToConnect # NULL
  BY <1>0, <1>3, NullUnknown
<1>5. pprev(NextToConnect) = view
  <2>1. CASE view = NULL
    BY <2>1, <1>3 DEF pprev, H
  <2>2. CASE view # NULL
    <3>1. view = branch[pindexNew][nHeight[view]] /\ H(view) = nHeight[view]
      BY <2>2, <1>0 DEF SwitchInv, H
    <3>2. nHeight[view] \in Nat
      BY <2>2, <1>0, <1>1 DEF TypeOK
    <3>3. nHeight[view] \in 0..(nHeight[view] + 1) /\ nHeight[view] + 1 \in 0..nHeight[pindexNew]
      BY <1>1, <1>2, <3>1, <3>2
    <3>4. branch[NextToConnect][nHeight[view]] = branch[pindexNew][nHeight[view]]
      BY <1>0, <1>1, <3>1, <3>3 DEF NextToConnect, TreeInv
    <3> QED BY <1>3, <3>1, <3>2, <3>4 DEF pprev
  <2> QED BY <2>1, <2>2
<1>6. ~IsInMainChain(NextToConnect)
  <2> SUFFICES ASSUME IsInMainChain(NextToConnect) PROVE FALSE
    OBVIOUS
  <2>1. /\ pindexBest \in mapBlockIndex /\ H(view) + 1 <= nHeight[pindexBest]
        /\ branch[pindexBest][H(view) + 1] = NextToConnect
    BY <1>0, <1>3, InMain
  <2>2. /\ coinsTip = pindexBest /\ H(coinsTip) = nHeight[pindexBest]
        /\ H(pindexNew) = nTop
    BY <1>0, <1>1, <2>1, NullUnknown DEF MainChainIsBestBranch, H
  <2>3. H(view) + 1 \in (nFork + 1)..H(pindexNew)
    BY <1>1, <2>2
  <2> QED BY <1>0, <2>1, <2>2, <2>3 DEF SwitchInv, IsFork, NextToConnect
<1> QED BY <1>2, <1>3, <1>4, <1>5, <1>6


LEMMA ConnectBlockInd ==
  ASSUME IndInv, ConnectBlock
  PROVE  IndInv'
<1>0. /\ TypeOK /\ TreeInv /\ AttachInv /\ SwitchInv /\ DiskInv
      /\ MainChainIsBestBranch /\ NoFailedOnMainChain /\ CandidatesAreUnfailed
  BY DEF IndInv
<1>1. /\ pc = "connect" /\ H(view) < nTop /\ view' = NextToConnect
      /\ UNCHANGED <<mapBlockIndex, nHeight, branch, nChainWork, failed,
                     setBlockIndexValid, vBlockIndexByHeight, pindexBest, coinsTip,
                     coinsDB, pindexNewBest, nAttach, pindexNew, nFork, nTop, ret,
                     starts, pc, crashes>>
  BY DEF ConnectBlock, indexVars, statusVars, mainVars, attachVars, callVars
<1>2. /\ NextToConnect \in mapBlockIndex /\ NextToConnect # NULL
      /\ H(view) + 1 \in 0..nTop /\ nHeight[NextToConnect] = H(view) + 1
  BY <1>1, ConnectFacts
<1>3. H(view) \in Int /\ nFork \in Int /\ nFork <= H(view) /\ nTop \in Nat
  BY <1>1, SwitchFacts
<1>4. TypeOK'
  <2>1. view' \in mapBlockIndex \cup {NULL} /\ H(pindexBest)' = H(pindexBest)
    BY <1>1, <1>2 DEF H
  <2>2. ({pindexBest, coinsTip, coinsDB, pindexNewBest, pindexNew, view}
            \subseteq mapBlockIndex \cup {NULL})'
    BY <1>0, <1>1, <2>1 DEF TypeOK
  <2> QED BY <1>0, <1>1, <2>1, <2>2 DEF TypeOK
<1>5. TreeInv' /\ MainChainIsBestBranch'
  BY <1>0, <1>1, TreeKept, MainChainKept
<1>6. AttachInv'
  BY <1>0, <1>1, AttachKept
<1>7. SwitchInv'
  <2>1. H(view)' = H(view) + 1
    BY <1>1, <1>2 DEF H
  <2>2. H(coinsTip)' = H(coinsTip) /\ IsFork(nFork, coinsTip, pindexNew)'
    BY <1>0, <1>1 DEF SwitchInv, IsFork, H
  <2>3. nFork' <= H(view)' /\ H(view)' <= nTop'
    BY <1>1, <1>2, <1>3, <2>1
  <2>4. view' = branch'[pindexNew'][nHeight'[view']]
    BY <1>1, <1>2 DEF NextToConnect
  <2> QED BY <1>0, <1>1, <2>2, <2>3, <2>4 DEF SwitchInv
<1>8. DiskInv' /\ NoFailedOnMainChain' /\ CandidatesAreUnfailed'
  BY <1>0, <1>1 DEF DiskInv, NoFailedOnMainChain, CandidatesAreUnfailed
<1> QED BY <1>4, <1>5, <1>6, <1>7, <1>8 DEF IndInv

LEMMA ConnectFailsInd ==
  ASSUME IndInv, ConnectFails
  PROVE  IndInv'
<1>0. /\ TypeOK /\ TreeInv /\ DiskInv
      /\ MainChainIsBestBranch /\ NoFailedOnMainChain /\ CandidatesAreUnfailed
  BY DEF IndInv
<1> DEFINE x == NextToConnect
<1>1. /\ pc = "connect" /\ H(view) < nTop /\ x # Genesis
      /\ failed' = failed \cup {x} /\ setBlockIndexValid' = setBlockIndexValid \ {x}
      /\ pc' = "return" /\ ret' = FALSE
      /\ UNCHANGED <<mapBlockIndex, nHeight, branch, nChainWork, vBlockIndexByHeight,
                     pindexBest, coinsTip, coinsDB, pindexNewBest, nAttach, pindexNew,
                     nFork, nTop, view, starts, crashes>>
  BY DEF ConnectFails, indexVars, mainVars, attachVars, switchVars
<1>2. x \in mapBlockIndex /\ ~IsInMainChain(x)
  BY <1>1, ConnectFacts
<1> HIDE DEF x
<1>3. TypeOK'
  <2>1. H(pindexBest)' = H(pindexBest) /\ failed' \subseteq mapBlockIndex' \ {Genesis}
    BY <1>0, <1>1, <1>2 DEF H, TypeOK
  <2> QED BY <1>0, <1>1, <2>1 DEF TypeOK
<1>4. DiskInv' /\ AttachInv' /\ SwitchInv'
  BY <1>0, <1>1 DEF DiskInv, AttachInv, SwitchInv
<1>5. TreeInv' /\ MainChainIsBestBranch'
  BY <1>0, <1>1, TreeKept, MainChainKept
<1>6. NoFailedOnMainChain'
  <2> SUFFICES ASSUME NEW k \in DOMAIN vBlockIndexByHeight, vBlockIndexByHeight[k] = x
               PROVE  FALSE
    BY <1>0, <1>1 DEF NoFailedOnMainChain
  <2>1. pindexBest \in mapBlockIndex /\ vBlockIndexByHeight = branch[pindexBest]
    <3>1. CASE pindexBest = NULL
      BY <3>1, <1>0 DEF MainChainIsBestBranch, MainChainOf
    <3>2. CASE pindexBest # NULL
      BY <3>2, <1>0 DEF MainChainIsBestBranch, MainChainOf, TypeOK
    <3> QED BY <3>1, <3>2
  <2>2. DOMAIN vBlockIndexByHeight = 0..nHeight[pindexBest]
    BY <2>1, <1>0 DEF TypeOK
  <2>3. nHeight[x] = k
    BY <2>1, <2>2, <1>0 DEF TreeInv
  <2> QED BY <2>3, <1>2 DEF IsInMainChain
<1>7. CandidatesAreUnfailed'
  BY <1>0, <1>1 DEF CandidatesAreUnfailed
<1> QED BY <1>3, <1>4, <1>5, <1>6, <1>7 DEF IndInv

\* The main chain SetBestChain builds is the branch of its new tip.
LEMMA SwitchedIsBranch ==
  ASSUME IndInv, pc = "connect"
  PROVE  SwitchedMainChain = branch[pindexNew]
<1>0. TypeOK /\ TreeInv /\ SwitchInv /\ MainChainIsBestBranch
  BY DEF IndInv
<1>1. /\ pindexNew \in mapBlockIndex /\ nHeight[pindexNew] = nTop /\ nTop \in Nat
      /\ nFork \in Int /\ -1 <= nFork /\ nFork <= nTop /\ nFork <= H(coinsTip)
      /\ branch[pindexNew] \in [0..nTop -> mapBlockIndex]
  BY SwitchFacts
<1>2. ASSUME NEW h \in 0..nTop
      PROVE  (IF nFork < h /\ h <= nTop THEN branch[pindexNew][h]
              ELSE IF h \in DOMAIN vBlockIndexByHeight THEN vBlockIndexByHeight[h]
              ELSE NULL) = branch[pindexNew][h]
  <2>1. CASE nFork < h
    BY <2>1, <1>1
  <2>2. CASE h <= nFork
    <3>1. coinsTip \in mapBlockIndex /\ H(coinsTip) = nHeight[coinsTip]
      BY <2>2, <1>0, <1>1 DEF H, TypeOK
    <3>2. vBlockIndexByHeight = branch[coinsTip]
      BY <3>1, <1>0 DEF MainChainIsBestBranch, MainChainOf, TypeOK
    <3>3. /\ branch[coinsTip] \in [0..nHeight[coinsTip] -> mapBlockIndex]
          /\ nHeight[coinsTip] \in Nat
      BY <3>1, <1>0 DEF TypeOK
    <3>4. nFork \in 0..nHeight[coinsTip] /\ h \in 0..nFork /\ h \in 0..nHeight[coinsTip]
      BY <2>2, <3>1, <3>3, <1>1
    <3>5. branch[coinsTip][nFork] = branch[pindexNew][nFork]
      BY <3>4, <1>0, <1>1 DEF SwitchInv, IsFork
    <3>6. branch[coinsTip][h] = branch[pindexNew][h]
      BY <3>1, <3>4, <3>5, <1>0, <1>1, SharedPrefix
    <3> QED BY <2>2, <3>2, <3>3, <3>4, <3>6, <1>1
  <2> QED BY <2>1, <2>2, <1>1
<1> QED BY <1>1, <1>2 DEF SwitchedMainChain

LEMMA FinishInd ==
  ASSUME IndInv, FinishSetBestChain
  PROVE  IndInv'
<1>0. /\ TypeOK /\ TreeInv /\ AttachInv /\ SwitchInv /\ DiskInv
      /\ MainChainIsBestBranch /\ NoFailedOnMainChain /\ CandidatesAreUnfailed
  BY DEF IndInv
<1>1. /\ pc = "connect" /\ H(view) >= nTop /\ coinsTip' = view
      /\ coinsDB' \in {coinsDB, view} /\ vBlockIndexByHeight' = SwitchedMainChain
      /\ pindexBest' = pindexNew /\ nAttach' = nAttach + 1 /\ pc' = "attach"
      /\ UNCHANGED <<mapBlockIndex, nHeight, branch, nChainWork, failed,
                     setBlockIndexValid, pindexNewBest, pindexNew, nFork, nTop, view,
                     ret, starts, crashes>>
  BY DEF FinishSetBestChain, CommitSwitch, indexVars, statusVars, switchVars, callVars
<1>2. /\ pindexNewBest \in mapBlockIndex /\ nAttach \in 0..nHeight[pindexNewBest]
      /\ pindexNew \in mapBlockIndex /\ pindexNew # NULL
      /\ nHeight[pindexNew] = nAttach /\ nTop = nAttach /\ nAttach \in Nat
      /\ H(coinsTip) \in Int /\ H(coinsTip) <= nTop /\ H(view) \in Int
      /\ view \in mapBlockIndex \cup {NULL}
      /\ branch[pindexNew] \in [0..nTop -> mapBlockIndex]
  BY <1>1, SwitchFacts
<1>3. pindexNew = branch[pindexNewBest][nAttach] /\ nHeight[pindexNewBest] \in Nat
  BY <1>0, <1>1, <1>2 DEF SwitchInv, TypeOK
<1>4. view = pindexNew
  <2>1. /\ H(view) <= nTop
        /\ view # NULL => view = branch[pindexNew][nHeight[view]]
    BY <1>0, <1>1 DEF SwitchInv
  <2>2. H(view) = nTop
    BY <2>1, <1>1, <1>2
  <2>3. view # NULL /\ nHeight[view] = nTop
    BY <2>2, <1>2 DEF H
  <2>4. branch[pindexNew][nHeight[pindexNew]] = pindexNew
    BY <1>0, <1>2 DEF TreeInv
  <2> QED BY <2>1, <2>3, <2>4, <1>2
<1>5. vBlockIndexByHeight' = branch[pindexNew]
  BY <1>1, SwitchedIsBranch
<1>6. TypeOK'
  <2>1. H(pindexBest)' = nTop
    BY <1>1, <1>2 DEF H
  <2>2. vBlockIndexByHeight' \in [0..H(pindexBest)' -> mapBlockIndex' \cup {NULL}]
    BY <2>1, <1>1, <1>2, <1>5
  <2>3. ({pindexBest, coinsTip, coinsDB, pindexNewBest, pindexNew, view}
            \subseteq mapBlockIndex \cup {NULL})'
    BY <1>0, <1>1, <1>2 DEF TypeOK
  <2>4. nAttach' \in Nat
    BY <1>1, <1>2
  <2> QED BY <2>2, <2>3, <2>4, <1>0, <1>1 DEF TypeOK
<1>7. TreeInv' /\ DiskInv' /\ SwitchInv'
  BY <1>0, <1>1, TreeKept DEF DiskInv, SwitchInv
<1>8. MainChainIsBestBranch'
  BY <1>1, <1>2, <1>4, <1>5 DEF MainChainIsBestBranch, MainChainOf
<1>9. ASSUME NEW h \in 0..nHeight[pindexNewBest], branch[pindexNewBest][h] \in failed
      PROVE  h <= H(coinsTip)
  <2>1. branch[pindexNewBest][h] \in mapBlockIndex /\ nHeight[branch[pindexNewBest][h]] = h
    <3>1. branch[pindexNewBest] \in [0..nHeight[pindexNewBest] -> mapBlockIndex]
      BY <1>0, <1>2 DEF TypeOK
    <3>2. nHeight[branch[pindexNewBest][h]] = h
      BY <1>0, <1>2 DEF TreeInv
    <3> QED BY <3>1, <3>2
  <2>2. IsInMainChain(branch[pindexNewBest][h])
    BY <1>0, <1>1, <1>9 DEF AttachInv
  <2>3. pindexBest \in mapBlockIndex /\ h <= nHeight[pindexBest]
    BY <1>0, <2>1, <2>2, InMain
  <2> QED BY <2>3, <1>0, NullUnknown DEF H, MainChainIsBestBranch
<1>10. \A h \in 0..nAttach : branch[pindexNew][h] = branch[pindexNewBest][h]
  BY <1>0, <1>2, <1>3 DEF TreeInv
<1>11. AttachInv'
  <2>1. ASSUME NEW h \in 0..nHeight[pindexNewBest], branch[pindexNewBest][h] \in failed
        PROVE  IsInMainChain(branch[pindexNewBest][h])'
    <3>1. h \in 0..nAttach
      BY <2>1, <1>2, <1>9
    <3>2. nHeight[branch[pindexNewBest][h]] = h
      BY <1>0, <1>2 DEF TreeInv
    <3> QED BY <3>1, <3>2, <1>1, <1>2, <1>5, <1>10 DEF IsInMainChain
  <2>2. ASSUME NEW h \in 0..nHeight[pindexNewBest], h >= nAttach + 1
        PROVE  nChainWork[branch[pindexNewBest][h]] > nChainWork[pindexNew]
    <3>1. nAttach \in 0..(h - 1)
      BY <2>2, <1>2, <1>3
    <3> QED BY <3>1, <1>0, <1>2, <1>3 DEF TreeInv
  <2>3. Work(pindexBest)' = nChainWork[pindexNew]
    BY <1>1, <1>2 DEF Work
  <2>4. nAttach' <= nHeight[pindexNewBest] + 1 /\ nAttach' = nAttach + 1
    BY <1>1, <1>2, <1>3
  <2> QED BY <2>1, <2>2, <2>3, <2>4, <1>1, <1>2 DEF AttachInv
<1>12. NoFailedOnMainChain'
  <2> SUFFICES ASSUME crashes = 0, NEW h \in 0..nTop, branch[pindexNew][h] \in failed
               PROVE  FALSE
    BY <1>1, <1>2, <1>5 DEF NoFailedOnMainChain
  <2>1. branch[pindexNewBest][h] \in failed /\ h \in 0..nHeight[pindexNewBest]
    BY <1>2, <1>3, <1>10
  <2>2. IsInMainChain(branch[pindexNewBest][h])
    BY <1>0, <1>1, <2>1 DEF AttachInv
  <2> QED BY <2>1, <2>2, <1>0 DEF IsInMainChain, NoFailedOnMainChain
<1>13. CandidatesAreUnfailed'
  BY <1>0, <1>1 DEF CandidatesAreUnfailed
<1> QED BY <1>6, <1>7, <1>8, <1>11, <1>12, <1>13 DEF IndInv


LEMMA NextInd == IndInv /\ [Next]_vars => IndInv'
<1> SUFFICES ASSUME IndInv, [Next]_vars PROVE IndInv'
  OBVIOUS
<1>1. CASE UNCHANGED vars
  <2>0. TypeOK'
    <3>1. H(pindexBest)' = H(pindexBest)
      BY <1>1 DEF vars, indexVars, mainVars, H
    <3> QED BY <1>1, <3>1 DEF vars, indexVars, statusVars, mainVars, attachVars, switchVars,
                callVars, IndInv, TypeOK
  <2>1. TreeInv' /\ AttachInv' /\ MainChainIsBestBranch'
    BY <1>1, TreeKept, AttachKept, MainChainKept
       DEF vars, indexVars, statusVars, mainVars, attachVars, IndInv
  <2>2. SwitchInv'
    BY <1>1 DEF vars, indexVars, statusVars, mainVars, attachVars, switchVars, callVars,
                IndInv, SwitchInv, H, IsFork
  <2>3. DiskInv' /\ NoFailedOnMainChain' /\ CandidatesAreUnfailed'
    BY <1>1 DEF vars, indexVars, statusVars, mainVars, IndInv, DiskInv, NoFailedOnMainChain,
                CandidatesAreUnfailed
  <2> QED BY <2>0, <2>1, <2>2, <2>3 DEF IndInv
<1>2. ASSUME NEW b \in Block, RefuseBlock(b) PROVE IndInv'
  BY <1>1, <1>2 DEF RefuseBlock
<1>3. ASSUME NEW b \in Block, NEW p \in mapBlockIndex, NEW w \in BlockWork,
             AcceptBlock(b, p, w)
      PROVE  IndInv'
  BY <1>3, AcceptBlockInd
<1>4. CASE Handler
  BY <1>4, QuietInd, SelectInd, AttachNextInd, DisconnectBlockInd, ConnectBlockInd,
     ConnectFailsInd, FinishInd, StopInd DEF Handler
<1>5. CASE Crash \/ Shutdown \/ Restart
  BY <1>5, StopInd, RestartInd
<1> QED BY <1>1, <1>2, <1>3, <1>4, <1>5 DEF Next

LEMMA Invariance == Spec => []IndInv
BY InitInd, NextInd, PTL DEF Spec

\* The types of all variables hold in every reachable state: in particular the
\* index stays a tree of known blocks (AddToBlockIndex).
THEOREM TypeCorrect == Spec => []TypeOK
<1>1. IndInv => TypeOK
  BY DEF IndInv
<1> QED BY <1>1, Invariance, PTL

\* vBlockIndexByHeight is the ancestry of pindexBest, and pcoinsTip stands at
\* pindexBest, at every step of SetBestChain and after every restart.
THEOREM MainChainSafety == Spec => []MainChainIsBestBranch
<1>1. IndInv => MainChainIsBestBranch
  BY DEF IndInv
<1> QED BY <1>1, Invariance, PTL

\* A node that was never stopped uncleanly has no failed block on its main
\* chain.
THEOREM FailedSafety == Spec => []NoFailedOnMainChain
<1>1. IndInv => NoFailedOnMainChain
  BY DEF IndInv
<1> QED BY <1>1, Invariance, PTL

\* setBlockIndexValid never holds a failed block while the node runs.
THEOREM CandidateSafety == Spec => []CandidatesAreUnfailed
<1>1. IndInv => CandidatesAreUnfailed
  BY DEF IndInv
<1> QED BY <1>1, Invariance, PTL

\* ConnectBlock is only called with its view at the block's parent, and never
\* on a block of the main chain: its assertion holds for every tree.
THEOREM ConnectSafety == Spec => []ConnectsOnTop
<1>1. IndInv => ConnectsOnTop
  BY ConnectFacts DEF ConnectsOnTop
<1> QED BY <1>1, Invariance, PTL

\* Every main chain passes through the hard checkpoints it reaches.
THEOREM CheckpointSafety == Spec => []CheckpointsOnMainChain
<1>1. IndInv => CheckpointsOnMainChain
  <2> SUFFICES ASSUME IndInv, NEW cp \in MapCheckpoints,
                      cp[1] \in DOMAIN vBlockIndexByHeight
               PROVE  vBlockIndexByHeight[cp[1]] = cp[2]
    BY DEF CheckpointsOnMainChain
  <2>1. TypeOK /\ TreeInv /\ MainChainIsBestBranch
    BY DEF IndInv
  <2>2. pindexBest \in mapBlockIndex /\ vBlockIndexByHeight = branch[pindexBest]
    <3>1. CASE pindexBest = NULL
      BY <3>1, <2>1 DEF MainChainIsBestBranch, MainChainOf
    <3>2. CASE pindexBest # NULL
      BY <3>2, <2>1 DEF MainChainIsBestBranch, MainChainOf, TypeOK
    <3> QED BY <3>1, <3>2
  <2>3. branch[pindexBest] \in [0..nHeight[pindexBest] -> mapBlockIndex]
    BY <2>1, <2>2 DEF TypeOK
  <2> DEFINE x == branch[pindexBest][cp[1]]
  <2>4. cp[1] \in 0..nHeight[pindexBest] /\ x \in mapBlockIndex
    BY <2>2, <2>3
  <2>5. nHeight[x] = cp[1]
    BY <2>1, <2>2, <2>4 DEF TreeInv
  <2>6. CheckBlock(nHeight[x], x)
    BY <2>1, <2>4 DEF TreeInv
  <2> QED BY <2>2, <2>5, <2>6 DEF CheckBlock
<1> QED BY <1>1, Invariance, PTL

\* A running node never moves to a tip with less work than the one it has.
THEOREM WorkNeverDrops == Spec => BestWorkNeverDrops
<1> DEFINE NoDrop == pc # "down" => Work(pindexBest)' >= Work(pindexBest)
<1>1. IndInv /\ [Next]_vars => [NoDrop]_vars
  <2> SUFFICES ASSUME IndInv, Next, pc # "down"
               PROVE  Work(pindexBest)' >= Work(pindexBest)
    OBVIOUS
  <2>0. TypeOK /\ TreeInv /\ AttachInv /\ SwitchInv
    BY DEF IndInv
  <2>1. Work(pindexBest) \in Nat
    BY <2>0 DEF Work, TypeOK
  <2>2. CASE FinishSetBestChain
    <3>1. /\ pindexNewBest \in mapBlockIndex /\ nAttach \in 0..nHeight[pindexNewBest]
          /\ pindexNew # NULL /\ nAttach \in Nat
      BY <2>2, SwitchFacts DEF FinishSetBestChain
    <3>2. pindexNew = branch[pindexNewBest][nAttach]
      BY <2>0, <2>2 DEF SwitchInv, FinishSetBestChain
    <3>3. nChainWork[pindexNew] > Work(pindexBest)
      BY <2>0, <2>2, <3>1, <3>2 DEF AttachInv, FinishSetBestChain
    <3>4. Work(pindexBest)' = nChainWork[pindexNew]
      BY <2>2, <3>1 DEF FinishSetBestChain, CommitSwitch, indexVars, Work
    <3>5. nChainWork[pindexNew] \in Nat
      BY <2>0, <2>2, SwitchFacts DEF TypeOK, FinishSetBestChain
    <3> QED BY <2>1, <3>3, <3>4, <3>5
  <2>3. ASSUME NEW b \in Block, NEW p \in mapBlockIndex, NEW w \in BlockWork,
               AcceptBlock(b, p, w)
        PROVE  Work(pindexBest)' = Work(pindexBest)
    <3>1. pindexBest' = pindexBest /\ pindexBest \in mapBlockIndex \cup {NULL}
      BY <2>0, <2>3 DEF AcceptBlock, mainVars, TypeOK
    <3>2. \A x \in mapBlockIndex : nChainWork'[x] = nChainWork[x]
      BY <2>3 DEF AcceptBlock
    <3> QED BY <3>1, <3>2 DEF Work
  <2>4. ASSUME pindexBest' = pindexBest, nChainWork' = nChainWork
        PROVE  Work(pindexBest)' = Work(pindexBest)
    BY <2>4 DEF Work
  <2>5. CASE Handler
    <3>1. CASE FinishSetBestChain
      BY <2>2, <3>1
    <3>2. CASE SelectBest
      <4>1. pindexBest' = pindexBest /\ nChainWork' = nChainWork
        BY <3>2 DEF SelectBest, MarkDescendants, ChooseBest, indexVars, mainVars
      <4> QED BY <2>1, <2>4, <4>1
    <3>3. CASE AttachNext
      <4>1. pindexBest' = pindexBest /\ nChainWork' = nChainWork
        BY <3>3 DEF AttachNext, BeginSetBestChain, indexVars, mainVars
      <4> QED BY <2>1, <2>4, <4>1
    <3>4. CASE NothingToConnect \/ AttachDone \/ DisconnectBlock \/ DisconnectDone
               \/ ConnectBlock \/ ConnectFails \/ Return
      BY <2>1, <2>4, <3>4 DEF NothingToConnect, AttachDone, DisconnectBlock, DisconnectDone,
           ConnectBlock, ConnectFails, Return, indexVars, mainVars
    <3> QED BY <2>5, <3>1, <3>2, <3>3, <3>4 DEF Handler
  <2>6. CASE Crash \/ Shutdown
    BY <2>1, <2>4, <2>6 DEF Crash, Shutdown, indexVars, mainVars
  <2>7. CASE Restart
    BY <2>7 DEF Restart
  <2>8. ASSUME NEW b \in Block, RefuseBlock(b)
        PROVE  Work(pindexBest)' = Work(pindexBest)
    BY <2>4, <2>8 DEF RefuseBlock, vars, indexVars, mainVars
  <2> QED BY <2>1, <2>3, <2>5, <2>6, <2>7, <2>8 DEF Next
<1>2. Spec => [][NoDrop]_vars
  BY <1>1, Invariance, PTL DEF Spec
<1> QED BY <1>2 DEF BestWorkNeverDrops

=============================================================================
