--------------------------- MODULE BlockChainLemmas ---------------------------
(* The tree of blocks, and the steps of BlockChain outside SetBestChain:   *)
(* each keeps the inductive invariant.  BlockChainProofs continues with    *)
(* SetBestChain and states the theorems.                                   *)
EXTENDS BlockChain, TLAPS

\* NULL is no block of the index.
LEMMA NullUnknown == TypeOK => NULL \notin mapBlockIndex /\ Genesis \in mapBlockIndex
BY ConstantsAssumption DEF TypeOK

\* The invariants that a step keeps because it changes nothing they mention.
LEMMA TreeKept ==
  ASSUME TreeInv, UNCHANGED <<mapBlockIndex, nHeight, branch, nChainWork>>
  PROVE  TreeInv'
BY DEF TreeInv, CheckBlock

LEMMA MainChainKept ==
  ASSUME MainChainIsBestBranch,
         UNCHANGED <<branch, vBlockIndexByHeight, pindexBest, coinsTip>>
  PROVE  MainChainIsBestBranch'
BY DEF MainChainIsBestBranch, MainChainOf

LEMMA AttachKept ==
  ASSUME AttachInv, pc' \in {"attach", "disconnect", "connect"} =>
                      pc \in {"attach", "disconnect", "connect"},
         UNCHANGED <<mapBlockIndex, nHeight, branch, nChainWork, failed, vBlockIndexByHeight,
                     pindexBest, pindexNewBest, nAttach>>
  PROVE  AttachInv'
BY DEF AttachInv, IsInMainChain, Work

\* Two branches that hold the same block agree below it.
LEMMA SharedPrefix ==
  ASSUME TypeOK, TreeInv,
         NEW a \in mapBlockIndex, NEW b \in mapBlockIndex,
         NEW h \in 0..nHeight[a], h <= nHeight[b], branch[a][h] = branch[b][h],
         NEW i \in 0..h
  PROVE  branch[a][i] = branch[b][i]
<1>1. nHeight[a] \in Nat /\ nHeight[b] \in Nat /\ h \in 0..nHeight[b]
  BY DEF TypeOK
<1>2. branch[branch[a][h]][i] = branch[a][i]
  BY DEF TreeInv
<1>3. branch[branch[b][h]][i] = branch[b][i]
  BY <1>1 DEF TreeInv
<1> QED BY <1>2, <1>3

LEMMA InitInd == Init => IndInv
<1> SUFFICES ASSUME Init PROVE IndInv
  OBVIOUS
<1>1. TypeOK
  <2>1. Genesis \in Block /\ Genesis # NULL /\ BlockWork \subseteq Nat \ {0} /\ 0 \in 0..MaxCrashes
    BY ConstantsAssumption
  <2> QED BY <2>1 DEF Init, TypeOK, H
<1>2. TreeInv
  <2>1. CheckBlock(0, Genesis)
    BY ConstantsAssumption DEF CheckBlock
  <2> QED BY <2>1 DEF Init, TreeInv
<1>3. AttachInv /\ SwitchInv /\ DiskInv /\ NoFailedOnMainChain /\ CandidatesAreUnfailed
  BY DEF Init, AttachInv, SwitchInv, DiskInv, NoFailedOnMainChain, CandidatesAreUnfailed
<1>4. MainChainIsBestBranch
  BY DEF Init, MainChainIsBestBranch, MainChainOf
<1> QED BY <1>1, <1>2, <1>3, <1>4 DEF IndInv

LEMMA AcceptBlockInd ==
  ASSUME IndInv, NEW b \in Block, NEW p \in mapBlockIndex, NEW w \in BlockWork,
         AcceptBlock(b, p, w)
  PROVE  IndInv'
<1> DEFINE top == nHeight[p] + 1
<1>0. /\ TypeOK /\ TreeInv /\ MainChainIsBestBranch /\ NoFailedOnMainChain
      /\ CandidatesAreUnfailed
  BY DEF IndInv
<1>a. /\ pc = "idle" /\ pc' = "select" /\ b \notin mapBlockIndex /\ CheckBlock(top, b)
      /\ mapBlockIndex' = mapBlockIndex \cup {b}
      /\ nHeight' = [x \in mapBlockIndex' |-> IF x = b THEN top ELSE nHeight[x]]
      /\ branch' = [x \in mapBlockIndex' |->
                      IF x = b THEN [i \in 0..top |-> IF i = top THEN b ELSE branch[p][i]]
                               ELSE branch[x]]
      /\ nChainWork' = [x \in mapBlockIndex' |->
                          IF x = b THEN nChainWork[p] + w ELSE nChainWork[x]]
      /\ setBlockIndexValid' = setBlockIndexValid \cup {b}
      /\ UNCHANGED <<failed, vBlockIndexByHeight, pindexBest, coinsTip, coinsDB, pindexNewBest,
                     nAttach, pindexNew, nFork, nTop, view, ret, starts, crashes>>
  BY DEF AcceptBlock, mainVars, attachVars, switchVars, callVars
<1>b. /\ nHeight[p] \in Nat /\ top \in Nat /\ b # p /\ b # NULL /\ b # Genesis
      /\ w \in Nat \ {0}
  <2>1. nHeight[p] \in Nat /\ Genesis \in mapBlockIndex
    BY <1>0 DEF TypeOK
  <2> QED BY <2>1, <1>a, ConstantsAssumption
<1>1. /\ nHeight'[b] = top /\ nChainWork'[b] = nChainWork[p] + w
      /\ branch'[b] = [i \in 0..top |-> IF i = top THEN b ELSE branch[p][i]]
  <2>1. b \in mapBlockIndex'
    BY <1>a
  <2> QED BY <2>1, <1>a
<1>c. \A x \in mapBlockIndex : /\ nHeight'[x] = nHeight[x]
                               /\ branch'[x] = branch[x]
                               /\ nChainWork'[x] = nChainWork[x]
  <2>1. \A x \in mapBlockIndex : x \in mapBlockIndex' /\ x # b
    BY <1>a
  <2> QED BY <2>1, <1>a
<1>d. \A x \in mapBlockIndex : nHeight[x] \in Nat /\ nChainWork[x] \in Nat \ {0}
  BY <1>0 DEF TypeOK
<1>e. \A x \in mapBlockIndex : branch[x] \in [0..nHeight[x] -> mapBlockIndex]
  BY <1>0 DEF TypeOK
<1>f. \A x \in mapBlockIndex : \A h \in 0..nHeight[x] : branch[x][h] \in mapBlockIndex
  BY <1>e
<1>g. /\ branch'[b][top] = b
      /\ \A i \in 0..nHeight[p] : branch'[b][i] = branch[p][i] /\ i # top /\ i \in 0..top
  BY <1>b, <1>1
<1>h. ASSUME NEW x \in mapBlockIndex
      PROVE  /\ branch[x][nHeight[x]] = x /\ CheckBlock(nHeight[x], x)
             /\ \A h \in 0..nHeight[x] :
                  /\ nHeight[branch[x][h]] = h
                  /\ \A i \in 0..h : branch[branch[x][h]][i] = branch[x][i]
                  /\ \A i \in 0..(h - 1) : nChainWork[branch[x][i]] < nChainWork[branch[x][h]]
  BY <1>0, <1>h DEF TreeInv
<1> HIDE DEF top
<1>3. TypeOK'
  <2>1. branch'[b] \in [0..nHeight'[b] -> mapBlockIndex']
    <3>1. \A i \in 0..top : i # top => i \in 0..nHeight[p]
      BY <1>b DEF top
    <3>2. \A i \in 0..top : (IF i = top THEN b ELSE branch[p][i]) \in mapBlockIndex'
      BY <3>1, <1>f, <1>a
    <3> QED BY <3>2, <1>1
  <2>2. \A x \in mapBlockIndex' : branch'[x] \in [0..nHeight'[x] -> mapBlockIndex']
    <3>1. ASSUME NEW x \in mapBlockIndex
          PROVE  branch'[x] \in [0..nHeight'[x] -> mapBlockIndex']
      <4>1. branch[x] \in [0..nHeight[x] -> mapBlockIndex]
        BY <1>e
      <4>2. mapBlockIndex \subseteq mapBlockIndex'
        BY <1>a
      <4> QED BY <4>1, <4>2, <1>c
    <3> QED BY <2>1, <3>1, <1>a
  <2>3. nHeight' \in [mapBlockIndex' -> Nat] /\ nChainWork' \in [mapBlockIndex' -> Nat \ {0}]
    <3>1. nChainWork[p] + w \in Nat \ {0}
      BY <1>b, <1>d
    <3> QED BY <3>1, <1>a, <1>b, <1>d
  <2>4. pindexBest \in mapBlockIndex \cup {NULL}
    BY <1>0 DEF TypeOK
  <2>5. H(pindexBest)' = H(pindexBest)
    BY <2>4, <1>a, <1>c DEF H
  <2>6. vBlockIndexByHeight' \in [0..H(pindexBest)' -> mapBlockIndex' \cup {NULL}]
    <3>1. vBlockIndexByHeight \in [0..H(pindexBest) -> mapBlockIndex \cup {NULL}]
      BY <1>0 DEF TypeOK
    <3> QED BY <3>1, <2>5, <1>a
  <2>7. /\ mapBlockIndex' \subseteq Block /\ Genesis \in mapBlockIndex'
        /\ failed' \subseteq mapBlockIndex' \ {Genesis}
        /\ setBlockIndexValid' \subseteq mapBlockIndex' /\ DOMAIN branch' = mapBlockIndex'
    BY <1>0, <1>a DEF TypeOK
  <2>8. ({pindexBest, coinsTip, coinsDB, pindexNewBest, pindexNew, view}
           \subseteq mapBlockIndex \cup {NULL})'
    BY <1>0, <1>a DEF TypeOK
  <2>9. /\ pc' \in {"idle", "select", "attach", "disconnect", "connect", "return", "down"}
        /\ ret' \in BOOLEAN /\ starts' \in 0..2
        /\ nAttach' \in Nat /\ nFork' \in Nat \cup {-1} /\ nTop' \in Nat \cup {-1}
        /\ crashes' \in 0..MaxCrashes
    BY <1>0, <1>a DEF TypeOK
  <2> QED BY <2>2, <2>3, <2>6, <2>7, <2>8, <2>9 DEF TypeOK
<1>4. TreeInv'
  <2>1. ASSUME NEW x \in mapBlockIndex
        PROVE  /\ branch'[x][nHeight'[x]] = x
               /\ CheckBlock(nHeight'[x], x)
               /\ \A h \in 0..nHeight'[x] :
                    /\ nHeight'[branch'[x][h]] = h
                    /\ \A i \in 0..h : branch'[branch'[x][h]][i] = branch'[x][i]
                    /\ \A i \in 0..(h - 1) :
                         nChainWork'[branch'[x][i]] < nChainWork'[branch'[x][h]]
    <3>1. nHeight'[x] = nHeight[x] /\ branch'[x] = branch[x] /\ nHeight[x] \in Nat
      BY <1>c, <1>d
    <3>2. branch'[x][nHeight'[x]] = x /\ CheckBlock(nHeight'[x], x)
      BY <3>1, <1>h
    <3>3. ASSUME NEW h \in 0..nHeight[x]
          PROVE  /\ nHeight'[branch[x][h]] = h
                 /\ branch'[branch[x][h]] = branch[branch[x][h]]
                 /\ nChainWork'[branch[x][h]] = nChainWork[branch[x][h]]
      <4>1. branch[x][h] \in mapBlockIndex /\ nHeight[branch[x][h]] = h
        BY <1>f, <1>h
      <4> QED BY <4>1, <1>c
    <3>4. ASSUME NEW h \in 0..nHeight[x], NEW i \in 0..h
          PROVE  branch'[branch'[x][h]][i] = branch'[x][i]
      BY <3>1, <3>3, <1>h
    <3>5. ASSUME NEW h \in 0..nHeight[x], NEW i \in 0..(h - 1)
          PROVE  nChainWork'[branch'[x][i]] < nChainWork'[branch'[x][h]]
      <4>1. i \in 0..nHeight[x]
        BY <3>1
      <4> QED BY <4>1, <3>1, <3>3, <1>h
    <3> QED BY <3>1, <3>2, <3>3, <3>4, <3>5
  <2>2. branch'[b][nHeight'[b]] = b /\ CheckBlock(nHeight'[b], b)
    BY <1>a, <1>1, <1>g
  <2>3. ASSUME NEW i \in 0..nHeight[p]
        PROVE  /\ branch'[b][i] = branch[p][i] /\ branch[p][i] \in mapBlockIndex
               /\ nHeight'[branch[p][i]] = i
               /\ branch'[branch[p][i]] = branch[branch[p][i]]
               /\ nChainWork'[branch[p][i]] = nChainWork[branch[p][i]]
    <3>1. branch[p][i] \in mapBlockIndex /\ nHeight[branch[p][i]] = i
      BY <1>f, <1>h
    <3> QED BY <3>1, <1>c, <1>g
  <2>4. ASSUME NEW h \in 0..nHeight'[b]
        PROVE  /\ nHeight'[branch'[b][h]] = h
               /\ \A i \in 0..h : branch'[branch'[b][h]][i] = branch'[b][i]
               /\ \A i \in 0..(h - 1) : nChainWork'[branch'[b][i]] < nChainWork'[branch'[b][h]]
    <3>1. CASE h = top
      <4>1. branch'[b][h] = b /\ nHeight'[branch'[b][h]] = h
        BY <1>1, <1>g, <3>1
      <4>2. ASSUME NEW i \in 0..nHeight[p] PROVE nChainWork[branch[p][i]] <= nChainWork[p]
        <5>1. nHeight[p] \in 0..nHeight[p] /\ branch[p][nHeight[p]] = p
          BY <1>h, <1>b
        <5>2. nChainWork[p] \in Nat /\ nChainWork[branch[p][i]] \in Nat
          BY <1>d, <2>3
        <5>3. CASE i = nHeight[p]
          BY <5>1, <5>2, <5>3
        <5>4. CASE i # nHeight[p]
          <6>1. i \in 0..(nHeight[p] - 1)
            BY <5>4, <1>b
          <6>2. nChainWork[branch[p][i]] < nChainWork[branch[p][nHeight[p]]]
            BY <5>1, <6>1, <1>h
          <6> QED BY <5>1, <5>2, <6>2
        <5> QED BY <5>3, <5>4
      <4>3. ASSUME NEW i \in 0..(h - 1)
            PROVE  nChainWork'[branch'[b][i]] < nChainWork'[branch'[b][h]]
        <5>1. i \in 0..nHeight[p]
          BY <3>1, <1>b DEF top
        <5>2. nChainWork[branch[p][i]] <= nChainWork[p] /\ nChainWork[branch[p][i]] \in Nat
          BY <4>2, <5>1, <1>d, <2>3
        <5>3. nChainWork'[branch'[b][i]] = nChainWork[branch[p][i]]
          BY <5>1, <2>3
        <5>4. nChainWork'[branch'[b][h]] = nChainWork[p] + w /\ nChainWork[p] \in Nat
          BY <4>1, <1>1, <1>d
        <5> QED BY <5>2, <5>3, <5>4, <1>b
      <4> QED BY <4>1, <4>3
    <3>2. CASE h # top
      <4>1. h \in 0..nHeight[p]
        BY <1>1, <1>b, <3>2 DEF top
      <4>2. ASSUME NEW i \in 0..h
            PROVE  branch'[branch'[b][h]][i] = branch'[b][i]
        <5>1. i \in 0..nHeight[p]
          BY <4>1, <1>b
        <5>2. branch[branch[p][h]][i] = branch[p][i]
          BY <4>1, <1>h
        <5> QED BY <5>1, <5>2, <4>1, <2>3
      <4>3. ASSUME NEW i \in 0..(h - 1)
            PROVE  nChainWork'[branch'[b][i]] < nChainWork'[branch'[b][h]]
        <5>1. i \in 0..nHeight[p]
          BY <4>1, <1>b
        <5>2. nChainWork[branch[p][i]] < nChainWork[branch[p][h]]
          BY <4>1, <1>h
        <5> QED BY <5>1, <5>2, <4>1, <2>3
      <4> QED BY <4>1, <2>3, <4>2, <4>3
    <3> QED BY <3>1, <3>2
  <2>5. nHeight'[Genesis] = 0
    BY <1>0, <1>c, NullUnknown DEF TreeInv
  <2>6. ASSUME NEW x \in mapBlockIndex'
        PROVE  /\ branch'[x][nHeight'[x]] = x
               /\ CheckBlock(nHeight'[x], x)
               /\ \A h \in 0..nHeight'[x] :
                    /\ nHeight'[branch'[x][h]] = h
                    /\ \A i \in 0..h : branch'[branch'[x][h]][i] = branch'[x][i]
                    /\ \A i \in 0..(h - 1) :
                         nChainWork'[branch'[x][i]] < nChainWork'[branch'[x][h]]
    <3>1. CASE x = b
      BY <3>1, <2>2, <2>4
    <3>2. CASE x \in mapBlockIndex
      BY <3>2, <2>1
    <3> QED BY <3>1, <3>2, <1>a
  <2> QED BY <2>5, <2>6 DEF TreeInv, CheckBlock
<1>5. AttachInv' /\ SwitchInv' /\ DiskInv'
  BY <1>a DEF AttachInv, SwitchInv, DiskInv
<1>6. MainChainIsBestBranch'
  <2>1. pindexBest \in mapBlockIndex \cup {NULL}
    BY <1>0 DEF TypeOK
  <2> QED BY <2>1, <1>0, <1>a, <1>c DEF MainChainIsBestBranch, MainChainOf
<1>7. NoFailedOnMainChain' /\ CandidatesAreUnfailed'
  <2>1. failed \subseteq mapBlockIndex
    BY <1>0 DEF TypeOK
  <2> QED BY <2>1, <1>0, <1>a DEF NoFailedOnMainChain, CandidatesAreUnfailed
<1> QED BY <1>3, <1>4, <1>5, <1>6, <1>7 DEF IndInv

\* What holds inside SetBestChain.
LEMMA SwitchFacts ==
  ASSUME IndInv, pc \in {"disconnect", "connect"}
  PROVE  /\ pindexNewBest \in mapBlockIndex /\ nAttach \in 0..nHeight[pindexNewBest]
         /\ pindexNew \in mapBlockIndex /\ pindexNew # NULL
         /\ nHeight[pindexNew] = nAttach /\ nTop = nAttach /\ nAttach \in Nat
         /\ nFork \in Int /\ -1 <= nFork /\ nFork <= H(coinsTip) /\ nFork <= nTop
         /\ H(coinsTip) \in Int /\ H(coinsTip) <= nTop
         /\ H(view) \in Int /\ nFork <= H(view)
         /\ view \in mapBlockIndex \cup {NULL}
         /\ branch[pindexNew] \in [0..nTop -> mapBlockIndex]
<1>1. TypeOK /\ TreeInv /\ AttachInv /\ SwitchInv
  BY DEF IndInv
<1>2. /\ pindexNewBest \in mapBlockIndex /\ nAttach \in Nat
      /\ nAttach <= nHeight[pindexNewBest]
      /\ pindexNew = branch[pindexNewBest][nAttach]
      /\ nTop = nHeight[pindexNew] /\ H(coinsTip) <= nTop
      /\ nFork <= H(coinsTip) /\ nFork <= H(pindexNew) /\ nFork <= H(view)
  BY <1>1 DEF AttachInv, SwitchInv, TypeOK, IsFork
<1>3. nHeight[pindexNewBest] \in Nat /\ nAttach \in 0..nHeight[pindexNewBest]
  BY <1>1, <1>2 DEF TypeOK
<1>4. pindexNew \in mapBlockIndex /\ nHeight[pindexNew] = nAttach
  <2>1. branch[pindexNewBest] \in [0..nHeight[pindexNewBest] -> mapBlockIndex]
    BY <1>1, <1>2 DEF TypeOK
  <2>2. nHeight[branch[pindexNewBest][nAttach]] = nAttach
    BY <1>1, <1>2, <1>3 DEF TreeInv
  <2> QED BY <2>1, <2>2, <1>2, <1>3
<1>5. pindexNew # NULL /\ H(pindexNew) = nAttach
  BY <1>1, <1>4, NullUnknown DEF H
<1>6. /\ nFork \in Int /\ -1 <= nFork
      /\ view \in mapBlockIndex \cup {NULL} /\ coinsTip \in mapBlockIndex \cup {NULL}
      /\ H(coinsTip) \in Int /\ H(view) \in Int
  <2>1. /\ nFork \in Nat \cup {-1} /\ nHeight \in [mapBlockIndex -> Nat]
        /\ view \in mapBlockIndex \cup {NULL} /\ coinsTip \in mapBlockIndex \cup {NULL}
    BY <1>1 DEF TypeOK
  <2>2. H(coinsTip) \in Int
    BY <2>1 DEF H
  <2>3. H(view) \in Int
    BY <2>1 DEF H
  <2> QED BY <2>1, <2>2, <2>3
<1>7. branch[pindexNew] \in [0..nTop -> mapBlockIndex]
  BY <1>1, <1>2, <1>4 DEF TypeOK
<1> QED BY <1>2, <1>3, <1>4, <1>5, <1>6, <1>7

\* The steps that only move the handler on.
LEMMA QuietInd ==
  ASSUME IndInv, NothingToConnect \/ AttachDone \/ DisconnectDone
  PROVE  IndInv'
<1> USE DEF NothingToConnect, AttachDone, DisconnectDone, indexVars, statusVars,
            mainVars, attachVars, switchVars, callVars
<1>0. /\ UNCHANGED <<mapBlockIndex, nHeight, branch, nChainWork, failed, setBlockIndexValid,
                     vBlockIndexByHeight, pindexBest, coinsTip, coinsDB, pindexNewBest,
                     nAttach, pindexNew, nFork, nTop, view, starts, crashes>>
      /\ \/ pc' = "return" /\ ret' = TRUE
         \/ pc = "disconnect" /\ pc' = "connect" /\ ret' = ret
      /\ pc \in {"select", "attach", "disconnect"}
  <2>1. CASE NothingToConnect
    BY <2>1
  <2>2. CASE AttachDone
    BY <2>2
  <2>3. CASE DisconnectDone
    BY <2>3
  <2> HIDE DEF NothingToConnect, AttachDone, DisconnectDone
  <2> QED BY <2>1, <2>2, <2>3
<1>1. TypeOK'
  <2> HIDE DEF NothingToConnect, AttachDone, DisconnectDone
  <2>1. TypeOK /\ H(pindexBest)' = H(pindexBest)
    BY <1>0 DEF IndInv, H
  <2>2. ret' \in BOOLEAN
    BY <1>0, <2>1 DEF TypeOK
  <2> QED BY <1>0, <2>1, <2>2 DEF TypeOK
<1>2. TreeInv' /\ MainChainIsBestBranch'
  BY <1>0, TreeKept, MainChainKept DEF IndInv
<1>3. AttachInv' /\ DiskInv'
  BY <1>0, AttachKept DEF IndInv, DiskInv
<1>4. SwitchInv'
  <2>1. CASE DisconnectDone
    <3>1. /\ TypeOK /\ TreeInv /\ AttachInv /\ SwitchInv /\ H(view) = nFork
          /\ pc = "disconnect" /\ pc' = "connect"
      BY <2>1 DEF IndInv
    <3>2. /\ H(view) <= H(coinsTip) /\ IsFork(nFork, coinsTip, pindexNew)
          /\ view # NULL => view = branch[coinsTip][nHeight[view]]
      BY <3>1 DEF SwitchInv
    <3>3. nFork \in Int /\ -1 <= nFork /\ nFork <= nTop
      BY <3>1, SwitchFacts
    <3>4. H(view) <= nTop
      BY <3>1, <3>3
    <3>5. view # NULL => view = branch[pindexNew][nHeight[view]]
      <4> SUFFICES ASSUME view # NULL PROVE view = branch[pindexNew][nHeight[view]]
        OBVIOUS
      <4>1. nHeight[view] = nFork /\ nFork >= 0
        BY <3>1, SwitchFacts DEF H, TypeOK
      <4> QED BY <4>1, <3>2 DEF IsFork
    <3> QED BY <2>1, <3>1, <3>4, <3>5 DEF SwitchInv, IsFork, H
  <2>2. CASE ~DisconnectDone
    BY <2>2 DEF SwitchInv
  <2> QED BY <2>1, <2>2
<1>5. NoFailedOnMainChain' /\ CandidatesAreUnfailed'
  BY <1>0 DEF IndInv, NoFailedOnMainChain, CandidatesAreUnfailed
<1> QED BY <1>1, <1>2, <1>3, <1>4, <1>5 DEF IndInv

\* The end of a handler, and the stops.
LEMMA StopInd ==
  ASSUME IndInv, Return \/ Crash \/ Shutdown
  PROVE  IndInv'
<1> USE DEF Return, Crash, Shutdown, DropLocals, indexVars, statusVars, mainVars,
            attachVars, switchVars, callVars
<1>1. TypeOK'
  <2>0. TypeOK
    BY DEF IndInv
  <2>1. H(pindexBest)' = H(pindexBest)
    BY DEF H
  <2>2. CASE Return
    BY <2>0, <2>1, <2>2 DEF TypeOK
  <2>3. CASE Crash
    <3>1. crashes' \in 0..MaxCrashes
      <4>1. crashes \in 0..MaxCrashes /\ crashes < MaxCrashes /\ crashes' = crashes + 1
        BY <2>0, <2>3 DEF TypeOK
      <4>2. MaxCrashes \in Nat
        BY ConstantsAssumption
      <4> HIDE DEF Return, Crash, Shutdown
      <4> QED BY <4>1, <4>2
    <3> QED BY <2>0, <2>1, <2>3, <3>1 DEF TypeOK
  <2>4. CASE Shutdown
    <3>1. /\ UNCHANGED <<mapBlockIndex, nHeight, branch, nChainWork, failed,
                         setBlockIndexValid, vBlockIndexByHeight, pindexBest, coinsTip,
                         ret, starts, crashes>>
          /\ coinsDB' = coinsTip /\ pc' = "down" /\ DropLocals
      BY <2>4
    <3> HIDE DEF Return, Crash, Shutdown
    <3> QED BY <2>0, <2>1, <3>1 DEF TypeOK
  <2> QED BY <2>2, <2>3, <2>4
<1>2. TreeInv' /\ MainChainIsBestBranch'
  BY TreeKept, MainChainKept DEF IndInv
<1>3. AttachInv' /\ SwitchInv'
  BY DEF AttachInv, SwitchInv
<1>4. DiskInv'
  BY DEF IndInv, DiskInv, TypeOK
<1>5. NoFailedOnMainChain' /\ CandidatesAreUnfailed'
  <2>1. /\ UNCHANGED <<mapBlockIndex, failed, setBlockIndexValid, vBlockIndexByHeight>>
        /\ crashes' = 0 => crashes = 0
        /\ pc # "down"
    BY DEF IndInv, TypeOK
  <2> HIDE DEF Return, Crash, Shutdown
  <2> QED BY <2>1 DEF IndInv, NoFailedOnMainChain, CandidatesAreUnfailed
<1> QED BY <1>1, <1>2, <1>3, <1>4, <1>5 DEF IndInv

LEMMA RestartInd ==
  ASSUME IndInv, Restart
  PROVE  IndInv'
<1> USE DEF Restart, indexVars, attachVars, switchVars
<1>0. TypeOK /\ TreeInv /\ DiskInv /\ MainChainIsBestBranch /\ NoFailedOnMainChain
  BY DEF IndInv
<1>1. TypeOK'
  <2>1. CASE coinsDB = NULL
    <3>1. vBlockIndexByHeight' \in [0..H(pindexBest)' -> mapBlockIndex' \cup {NULL}]
      <4>1. H(pindexBest)' = -1 /\ vBlockIndexByHeight' = [h \in {} |-> NULL]
        BY <2>1 DEF H, MainChainOf
      <4>2. 0..H(pindexBest)' = {}
        BY <4>1
      <4> QED BY <4>1, <4>2
    <3> QED BY <3>1, <1>0 DEF TypeOK
  <2>2. CASE coinsDB # NULL
    <3>1. coinsDB \in mapBlockIndex /\ vBlockIndexByHeight' = branch[coinsDB]
      BY <2>2, <1>0 DEF TypeOK, MainChainOf
    <3>2. H(pindexBest)' = nHeight[coinsDB]
      BY <2>2 DEF H
    <3>3. vBlockIndexByHeight' \in [0..H(pindexBest)' -> mapBlockIndex' \cup {NULL}]
      <4>1. branch[coinsDB] \in [0..nHeight[coinsDB] -> mapBlockIndex]
        BY <3>1, <1>0 DEF TypeOK
      <4> QED BY <3>1, <3>2, <4>1
    <3> QED BY <3>3, <1>0 DEF TypeOK
  <2> QED BY <2>1, <2>2
<1>2. TreeInv'
  BY <1>0, TreeKept
<1>3. AttachInv' /\ SwitchInv' /\ DiskInv'
  BY DEF AttachInv, SwitchInv, DiskInv
<1>4. MainChainIsBestBranch'
  BY DEF MainChainIsBestBranch, MainChainOf
<1>5. NoFailedOnMainChain'
  <2> SUFFICES ASSUME crashes = 0 PROVE NoFailedOnMainChain'
    BY DEF NoFailedOnMainChain
  <2>1. vBlockIndexByHeight' = vBlockIndexByHeight
    BY <1>0 DEF DiskInv, MainChainIsBestBranch, MainChainOf
  <2> QED BY <2>1, <1>0 DEF NoFailedOnMainChain
<1>6. CandidatesAreUnfailed'
  BY DEF CandidatesAreUnfailed
<1> QED BY <1>1, <1>2, <1>3, <1>4, <1>5, <1>6 DEF IndInv


\* The main chain is the branch of pindexBest.
LEMMA InMain ==
  ASSUME TypeOK, MainChainIsBestBranch, NEW b \in mapBlockIndex
  PROVE  IsInMainChain(b) <=> /\ pindexBest \in mapBlockIndex
                              /\ nHeight[b] <= nHeight[pindexBest]
                              /\ branch[pindexBest][nHeight[b]] = b
<1>1. nHeight[b] \in Nat
  BY DEF TypeOK
<1>2. CASE pindexBest = NULL
  <2>1. vBlockIndexByHeight = [h \in {} |-> NULL]
    BY <1>2 DEF MainChainIsBestBranch, MainChainOf
  <2>2. ~IsInMainChain(b)
    BY <2>1 DEF IsInMainChain
  <2> QED BY <1>2, <2>2, NullUnknown
<1>3. CASE pindexBest # NULL
  <2>1. pindexBest \in mapBlockIndex /\ vBlockIndexByHeight = branch[pindexBest]
    BY <1>3 DEF TypeOK, MainChainIsBestBranch, MainChainOf
  <2>2. DOMAIN vBlockIndexByHeight = 0..nHeight[pindexBest] /\ nHeight[pindexBest] \in Nat
    BY <2>1 DEF TypeOK
  <2> QED BY <1>1, <2>1, <2>2 DEF IsInMainChain
<1> QED BY <1>2, <1>3

\* The ancestors of a block on the main chain are on it too.
LEMMA InMainPrefix ==
  ASSUME TypeOK, TreeInv, MainChainIsBestBranch, NEW c \in mapBlockIndex,
         NEW h \in 0..nHeight[c], IsInMainChain(branch[c][h]), NEW i \in 0..h
  PROVE  IsInMainChain(branch[c][i])
<1>1. nHeight[c] \in Nat /\ h \in Nat /\ i \in 0..nHeight[c]
  BY DEF TypeOK
<1>2. branch[c][h] \in mapBlockIndex /\ branch[c][i] \in mapBlockIndex
  <2>1. branch[c] \in [0..nHeight[c] -> mapBlockIndex]
    BY DEF TypeOK
  <2> QED BY <2>1, <1>1
<1>3. nHeight[branch[c][h]] = h /\ nHeight[branch[c][i]] = i
  BY <1>1 DEF TreeInv
<1>4. /\ pindexBest \in mapBlockIndex /\ h <= nHeight[pindexBest]
      /\ branch[pindexBest][h] = branch[c][h]
  BY <1>2, <1>3, InMain
<1>5. nHeight[pindexBest] \in Nat
  BY <1>4 DEF TypeOK
<1>6. branch[pindexBest][i] = branch[c][i]
  BY <1>4, <1>5, <1>1, SharedPrefix
<1> QED BY <1>1, <1>2, <1>3, <1>4, <1>5, <1>6, InMain

LEMMA SelectInd ==
  ASSUME IndInv, SelectBest
  PROVE  IndInv'
<1>0. /\ TypeOK /\ TreeInv /\ MainChainIsBestBranch /\ NoFailedOnMainChain
      /\ CandidatesAreUnfailed /\ DiskInv /\ pc = "select"
  BY DEF IndInv, SelectBest
<1>1. PICK c \in MostWork :
        \E s \in 0..nHeight[c] :
          /\ WalkStopsAt(c, s)
          /\ \/ \E j \in s..nHeight[c] : MarkDescendants(c, j)
             \/ \E a \in s..(nHeight[c] + 1) : ChooseBest(c, s, a)
  BY DEF SelectBest
<1>2. c \in mapBlockIndex /\ nHeight[c] \in Nat /\ branch[c] \in [0..nHeight[c] -> mapBlockIndex]
  BY <1>0, <1>1 DEF TypeOK, MostWork
<1>3. PICK s \in 0..nHeight[c] :
          /\ WalkStopsAt(c, s)
          /\ \/ \E j \in s..nHeight[c] : MarkDescendants(c, j)
             \/ \E a \in s..(nHeight[c] + 1) : ChooseBest(c, s, a)
  BY <1>1
<1>4. ASSUME NEW j \in s..nHeight[c], MarkDescendants(c, j)
      PROVE  IndInv'
  <2> DEFINE bad == {branch[c][h] : h \in (j + 1)..nHeight[c]}
  <2>0. /\ branch[c][j] \in failed
        /\ failed' = failed \cup bad /\ setBlockIndexValid' = setBlockIndexValid \ bad
        /\ UNCHANGED <<mapBlockIndex, nHeight, branch, nChainWork, vBlockIndexByHeight,
                       pindexBest, coinsTip, coinsDB, pindexNewBest, nAttach, pindexNew,
                       nFork, nTop, view, ret, starts, pc, crashes>>
    BY <1>4 DEF MarkDescendants, indexVars, mainVars, attachVars, switchVars, callVars
  <2>1. bad \subseteq mapBlockIndex \ {Genesis}
    <3> SUFFICES ASSUME NEW h \in (j + 1)..nHeight[c]
                 PROVE  branch[c][h] \in mapBlockIndex /\ branch[c][h] # Genesis
      OBVIOUS
    <3>1. h \in 0..nHeight[c] /\ h # 0
      BY <1>2
    <3>2. nHeight[branch[c][h]] = h /\ nHeight[Genesis] = 0
      BY <3>1, <1>0, <1>2 DEF TreeInv
    <3> QED BY <3>1, <3>2, <1>2
  <2>2. TypeOK'
    <3>1. failed' \subseteq mapBlockIndex \ {Genesis}
      BY <2>0, <2>1, <1>0 DEF TypeOK
    <3>2. setBlockIndexValid' \subseteq mapBlockIndex
      BY <2>0, <1>0 DEF TypeOK
    <3> HIDE DEF bad
    <3> QED BY <3>1, <3>2, <2>0, <1>0 DEF TypeOK, H
  <2>3. DiskInv' /\ AttachInv' /\ SwitchInv'
    BY <2>0, <1>0 DEF DiskInv, AttachInv, SwitchInv
  <2>4. TreeInv' /\ MainChainIsBestBranch'
    BY <2>0, <1>0, TreeKept, MainChainKept
  <2>5. NoFailedOnMainChain'
    <3> SUFFICES ASSUME crashes = 0, NEW k \in DOMAIN vBlockIndexByHeight,
                        vBlockIndexByHeight[k] \in bad
                 PROVE  FALSE
      BY <2>0, <1>0 DEF NoFailedOnMainChain
    <3>1. PICK h \in (j + 1)..nHeight[c] : vBlockIndexByHeight[k] = branch[c][h]
      OBVIOUS
    <3>2. h \in 0..nHeight[c] /\ j \in 0..h /\ j \in 0..nHeight[c]
      BY <1>2
    <3>3. nHeight[branch[c][h]] = h /\ nHeight[branch[c][j]] = j
      BY <1>0, <1>2, <3>2 DEF TreeInv
    <3>4. IsInMainChain(branch[c][h])
      <4>1. pindexBest \in mapBlockIndex /\ vBlockIndexByHeight = branch[pindexBest]
        <5>1. CASE pindexBest = NULL
          BY <5>1, <1>0 DEF MainChainIsBestBranch, MainChainOf
        <5>2. CASE pindexBest # NULL
          BY <5>2, <1>0 DEF MainChainIsBestBranch, MainChainOf, TypeOK
        <5> QED BY <5>1, <5>2
      <4>2. DOMAIN vBlockIndexByHeight = 0..nHeight[pindexBest]
        BY <4>1, <1>0 DEF TypeOK
      <4>3. nHeight[branch[pindexBest][k]] = k
        BY <4>1, <4>2, <1>0 DEF TreeInv
      <4> QED BY <4>1, <4>3, <3>1, <3>3 DEF IsInMainChain
    <3>5. IsInMainChain(branch[c][j])
      BY <3>2, <3>4, <1>0, <1>2, InMainPrefix
    <3> QED BY <3>5, <2>0, <1>0 DEF IsInMainChain, NoFailedOnMainChain
  <2>6. CandidatesAreUnfailed'
    BY <2>0, <1>0 DEF CandidatesAreUnfailed
  <2> QED BY <2>2, <2>3, <2>4, <2>5, <2>6 DEF IndInv
<1>5. ASSUME NEW a \in s..(nHeight[c] + 1), ChooseBest(c, s, a)
      PROVE  IndInv'
  <2>0. /\ \A h \in s..nHeight[c] : branch[c][h] \notin failed
        /\ \A h \in a..nHeight[c] : nChainWork[branch[c][h]] > Work(pindexBest)
        /\ pindexNewBest' = c /\ nAttach' = a /\ pc' = "attach"
        /\ UNCHANGED <<mapBlockIndex, nHeight, branch, nChainWork, failed,
                       setBlockIndexValid, vBlockIndexByHeight, pindexBest, coinsTip,
                       coinsDB, pindexNew, nFork, nTop, view, ret, starts, crashes>>
    BY <1>5 DEF ChooseBest, indexVars, statusVars, mainVars, switchVars, callVars
  <2>1. TypeOK'
    <3>1. a \in Nat
      BY <1>2
    <3>2. H(pindexBest)' = H(pindexBest)
      BY <2>0 DEF H
    <3>3. c \in mapBlockIndex
      BY <1>2
    <3>4. ({pindexBest, coinsTip, coinsDB, pindexNewBest, pindexNew, view}
              \subseteq mapBlockIndex \cup {NULL})'
      BY <3>3, <2>0, <1>0 DEF TypeOK
    <3>5. ret' \in BOOLEAN
      BY <2>0, <1>0 DEF TypeOK
    <3> QED BY <3>1, <3>2, <3>4, <3>5, <2>0, <1>0 DEF TypeOK
  <2>2. AttachInv'
    <3>1. ASSUME NEW h \in 0..nHeight[c], branch[c][h] \in failed
          PROVE  IsInMainChain(branch[c][h])
      <4>1. h < s
        BY <1>2, <2>0, <3>1
      <4>2. IsInMainChain(branch[c][s])
        BY <4>1, <1>2, <1>3 DEF WalkStopsAt, HasNextInMainChain
      <4> QED BY <4>1, <4>2, <1>0, <1>2, InMainPrefix
    <3>2. \A h \in 0..nHeight[c] : h >= a => nChainWork[branch[c][h]] > Work(pindexBest)
      BY <1>2, <2>0
    <3>3. a <= nHeight[c] + 1
      BY <1>2
    <3> QED BY <3>1, <3>2, <3>3, <1>2, <2>0 DEF AttachInv, IsInMainChain, Work
  <2>3. DiskInv' /\ SwitchInv' /\ NoFailedOnMainChain' /\ CandidatesAreUnfailed'
    BY <1>0, <2>0 DEF DiskInv, SwitchInv, NoFailedOnMainChain, CandidatesAreUnfailed
  <2>4. TreeInv' /\ MainChainIsBestBranch'
    BY <1>0, <2>0, TreeKept, MainChainKept
  <2> QED BY <2>1, <2>2, <2>3, <2>4 DEF IndInv
<1> QED BY <1>3, <1>4, <1>5

=============================================================================
