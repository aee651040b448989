---------------------- MODULE ControllerRuntime_proofs ----------------------
(***************************************************************************)
(* Facts about the machinery of ControllerRuntime that both reconcilers    *)
(* rest on: one worker per key, reads that never run backwards.            *)
(***************************************************************************)
EXTENDS ControllerRuntime, TLAPS

\* What a step of a reconciler does to the variables of the runtime.
RuntimeNext ==
  \/ \E k \in Resources : \E o \in Objects \cup {Absent} : Publish(k, o)
  \/ \E k \in Resources : \E i \in Deliverable(k) : \E a \in BOOLEAN : Observe(k, i, a)
  \/ \E w \in Workers, k \in Resources : Dequeue(w, k)
  \/ \E w \in Workers : Read(w)
  \/ \E w \in Workers : got[w] # 0 /\ Return(w)
  \/ \E w \in Workers : working[w] # Idle /\ ReturnError(w)
  \/ RuntimeRestart

\* Every index points into the history it is an index of.
IndicesInRange ==
  /\ \A k \in Resources : cached[k] <= Len(history[k]) /\ applied[k] <= Len(history[k])
  /\ \A w \in Workers : working[w] = Idle => got[w] = 0
  /\ \A w \in Workers : working[w] # Idle => got[w] <= Len(history[working[w]])

\* The workqueue serializes the calls for one key.
OneWorkerPerKey ==
  \A v, w \in Workers : working[v] = working[w] /\ working[v] # Idle => v = w

\* A call in flight holds a version at least as new as the one last acted upon.
\* With cached reads this needs the cache to be ahead of both.
ReadsNeverRunBack ==
  /\ \A w \in Workers : got[w] # 0 => applied[working[w]] <= got[w]
  /\ CachedReads => \A k \in Resources : applied[k] <= cached[k]
  /\ CachedReads => \A w \in Workers : working[w] # Idle => got[w] <= cached[working[w]]

RuntimeInv ==
  /\ RuntimeTypeOK
  /\ IndicesInRange
  /\ OneWorkerPerKey
  /\ ReadsNeverRunBack

\* Every resource has a version, be it that it does not exist.
HistoriesStarted == \A k \in Resources : Len(history[k]) > 0

-----------------------------------------------------------------------------

\* A new version leaves the earlier ones where they are.
LEMMA PublishAppends ==
  ASSUME RuntimeTypeOK, NEW k \in Resources, NEW o \in Objects \cup {Absent}, Publish(k, o)
  PROVE  /\ history' \in [Resources -> Seq(Objects \cup {Absent})]
         /\ Len(history'[k]) = Len(history[k]) + 1
         /\ history'[k][Len(history[k]) + 1] = o
         /\ \A i \in 1 .. Len(history[k]) : history'[k][i] = history[k][i]
         /\ \A j \in Resources : j # k => history'[j] = history[j]
  BY DEF RuntimeTypeOK, Publish

\* The histories only grow, whatever the step.
LEMMA HistoryGrows ==
  ASSUME RuntimeTypeOK, [RuntimeNext]_runtimeVars
  PROVE  \A k \in Resources :
           /\ Len(history[k]) \in Nat /\ Len(history'[k]) \in Nat
           /\ Len(history[k]) <= Len(history'[k])
           /\ \A i \in 1 .. Len(history[k]) : history'[k][i] = history[k][i]
<1>1. ASSUME NEW k \in Resources, NEW o \in Objects \cup {Absent}, Publish(k, o)
      PROVE  \A j \in Resources :
               /\ Len(history[j]) \in Nat /\ Len(history'[j]) \in Nat
               /\ Len(history[j]) <= Len(history'[j])
               /\ \A i \in 1 .. Len(history[j]) : history'[j][i] = history[j][i]
  <2>1. TAKE j \in Resources
  <2>2. Len(history[j]) \in Nat
    BY DEF RuntimeTypeOK
  <2>3. CASE j = k
    BY <1>1, <2>2, <2>3, PublishAppends
  <2>4. CASE j # k
    BY <1>1, <2>2, <2>4, PublishAppends
  <2>5. QED
    BY <2>3, <2>4
<1>2. ASSUME UNCHANGED history
      PROVE  \A j \in Resources :
               /\ Len(history[j]) \in Nat /\ Len(history'[j]) \in Nat
               /\ Len(history[j]) <= Len(history'[j])
               /\ \A i \in 1 .. Len(history[j]) : history'[j][i] = history[j][i]
  BY <1>2 DEF RuntimeTypeOK
<1>3. QED
  BY <1>1, <1>2 DEF RuntimeNext, runtimeVars, Observe, Dequeue, Read, Return, ReturnError,
                    RuntimeRestart

LEMMA RuntimeInvInit == RuntimeInit => RuntimeInv
<1>1. SUFFICES ASSUME RuntimeInit PROVE RuntimeInv
  OBVIOUS
<1>2. RuntimeTypeOK
  <2>1. history \in [Resources -> Seq(Objects \cup {Absent})]
    <3>1. DEFINE Versions == Objects \cup {Absent}
    <3>2. \A o \in Versions : <<o>> \in Seq(Versions)
      OBVIOUS
    <3>3. {<<o>> : o \in Versions} \subseteq Seq(Versions)
      BY <3>2
    <3>4. history \in [Resources -> {<<o>> : o \in Versions}]
      BY <1>1 DEF RuntimeInit
    <3>5. QED
      BY <3>3, <3>4
  <2>2. QED
    BY <1>1, <2>1 DEF RuntimeInit, RuntimeTypeOK
<1>3. \A k \in Resources : Len(history[k]) \in Nat
  BY <1>2 DEF RuntimeTypeOK
<1>4. QED
  BY <1>1, <1>2, <1>3
     DEF RuntimeInit, RuntimeInv, IndicesInRange, OneWorkerPerKey, ReadsNeverRunBack

LEMMA RuntimeInvStep == RuntimeInv /\ [RuntimeNext]_runtimeVars => RuntimeInv'
<1> SUFFICES ASSUME RuntimeInv, [RuntimeNext]_runtimeVars PROVE RuntimeInv'
  OBVIOUS
<1> USE RuntimeAssumption
<1>0. RuntimeTypeOK
  BY DEF RuntimeInv
<1>h. \A k \in Resources :
        /\ Len(history[k]) \in Nat /\ Len(history'[k]) \in Nat
        /\ Len(history[k]) <= Len(history'[k])
  BY <1>0, HistoryGrows
<1>1. ASSUME NEW k \in Resources, NEW o \in Objects \cup {Absent}, Publish(k, o)
      PROVE  RuntimeInv'
  <2>1. RuntimeTypeOK'
    BY <1>0, <1>1, PublishAppends DEF RuntimeTypeOK, Publish
  <2>2. UNCHANGED <<cached, dirty, working, got, applied, restarts>>
    BY <1>1 DEF Publish
  <2>3. IndicesInRange'
    BY <1>h, <2>2 DEF RuntimeInv, IndicesInRange, RuntimeTypeOK
  <2>4. QED
    BY <2>1, <2>2, <2>3 DEF RuntimeInv, OneWorkerPerKey, ReadsNeverRunBack
<1>2. ASSUME NEW k \in Resources, NEW i \in Deliverable(k), NEW a \in BOOLEAN,
             Observe(k, i, a)
      PROVE  RuntimeInv'
  <2>1. /\ i \in Nat /\ cached[k] < i /\ i <= Len(history[k])
    BY <1>h DEF Deliverable, RuntimeInv, RuntimeTypeOK
  <2>2. RuntimeTypeOK'
    BY <1>0, <1>2, <2>1 DEF RuntimeTypeOK, Observe
  <2>3. /\ UNCHANGED <<history, working, got, applied>>
        /\ cached' = [cached EXCEPT ![k] = i]
    BY <1>2 DEF Observe
  <2>4. \A j \in Resources : cached[j] \in Nat /\ cached'[j] \in Nat /\ cached[j] <= cached'[j]
    BY <1>0, <2>1, <2>3 DEF RuntimeTypeOK
  <2>5. IndicesInRange'
    BY <1>0, <2>1, <2>3 DEF RuntimeInv, IndicesInRange, RuntimeTypeOK
  <2>6. ReadsNeverRunBack'
    BY <1>0, <2>3, <2>4 DEF RuntimeInv, ReadsNeverRunBack, RuntimeTypeOK
  <2>7. QED
    BY <2>2, <2>3, <2>5, <2>6 DEF RuntimeInv, OneWorkerPerKey
<1>3. ASSUME NEW w \in Workers, NEW k \in Resources, Dequeue(w, k)
      PROVE  RuntimeInv'
  BY <1>3 DEF Dequeue, RuntimeInv, RuntimeTypeOK, IndicesInRange, OneWorkerPerKey,
              ReadsNeverRunBack
<1>4. ASSUME NEW w \in Workers, Read(w)
      PROVE  RuntimeInv'
  <2>1. working[w] \in Resources
    BY <1>0, <1>4 DEF Read, RuntimeTypeOK
  <2>2. RuntimeTypeOK'
    BY <1>0, <1>4, <1>h, <2>1 DEF Read, RuntimeTypeOK
  <2>3. QED
    BY <1>h, <1>4, <2>1, <2>2
       DEF Read, RuntimeInv, RuntimeTypeOK, IndicesInRange, OneWorkerPerKey, ReadsNeverRunBack
<1>5. ASSUME NEW w \in Workers, got[w] # 0, Return(w)
      PROVE  RuntimeInv'
  <2>1. working[w] \in Resources
    BY <1>0, <1>5 DEF RuntimeInv, IndicesInRange, RuntimeTypeOK
  <2>2. RuntimeTypeOK'
    BY <1>0, <1>5, <2>1 DEF Return, RuntimeTypeOK
  <2>3. \A v \in Workers \ {w} : working[v] # working[w]
    BY <2>1 DEF RuntimeInv, OneWorkerPerKey
  <2>4. QED
    BY <1>h, <1>5, <2>1, <2>2, <2>3
       DEF Return, RuntimeInv, RuntimeTypeOK, IndicesInRange, OneWorkerPerKey, ReadsNeverRunBack
<1>6. ASSUME NEW w \in Workers, working[w] # Idle, ReturnError(w)
      PROVE  RuntimeInv'
  BY <1>6 DEF ReturnError, RuntimeInv, RuntimeTypeOK, IndicesInRange, OneWorkerPerKey,
              ReadsNeverRunBack
<1>7. ASSUME RuntimeRestart
      PROVE  RuntimeInv'
  <2>1. RuntimeTypeOK'
    BY <1>0, <1>7 DEF RuntimeRestart, RuntimeTypeOK
  <2>2. QED
    BY <1>h, <1>7, <2>1
       DEF RuntimeRestart, RuntimeInv, IndicesInRange, OneWorkerPerKey, ReadsNeverRunBack
<1>8. ASSUME UNCHANGED runtimeVars
      PROVE  RuntimeInv'
  BY <1>8 DEF runtimeVars, RuntimeInv, RuntimeTypeOK, IndicesInRange, OneWorkerPerKey,
              ReadsNeverRunBack
<1>9. QED
  BY <1>1, <1>2, <1>3, <1>4, <1>5, <1>6, <1>7, <1>8 DEF RuntimeNext

=============================================================================
