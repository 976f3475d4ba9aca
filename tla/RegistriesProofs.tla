-------------------------- MODULE RegistriesProofs --------------------------
(* What the processes of a lane may rely on, whatever their environments hold *)
(* and however often they restart: that no record is passed over, in any case; *)
(* the rest as long as no core is installed under a process that has composed  *)
(* its registries.                                                             *)
EXTENDS Registries, TLAPS

\* What a process keeps is the union of what its environment holds, if that does
\* not change under it.
KeptIsUnion ==
  ~InstallLate => \A p \in Process :
    composed[p] => ~Collides(env[p]) /\ installed[p] = Union(env[p])

\* Whoever passed the check of the declared cores has them, and so does the
\* process whose writer is open.
CheckedHasDeclared ==
  /\ \A p \in Process : checked[p] => composed[p] /\ Declared \subseteq env[p]
  /\ writer # NoProcess => checked[writer]

\* The records applied are the journal's first ones, in their order.
AppliedIsPrefix ==
  /\ cursor = Len(applied)
  /\ cursor <= Len(journal)
  /\ \A i \in 1 .. cursor : applied[i].verb = journal[i]

RefusedUndeclared == ~InstallLate => NoLateRefusal
AppliedByOwn == ~InstallLate => OwnHandlerApplies

\* The inductive invariant.
IInv ==
  /\ TypeOK
  /\ KeptIsUnion
  /\ CheckedHasDeclared
  /\ AppliedIsPrefix
  /\ RefusedUndeclared
  /\ AppliedByOwn

-----------------------------------------------------------------------------
(* Lemmas on the composition of registries. *)

\* A union is a registry: verbs to handlers.
LEMMA UnionIsHandlers ==
  ASSUME NEW cores \in SUBSET Core
  PROVE  Union(cores) \in Handlers
<1>1. \A w \in Verb : Claims(cores, w) \subseteq Handler
  BY RegistriesOfCores DEF Claims
<1>2. \A w \in Verb : Claims(cores, w) # {} => (CHOOSE h \in Claims(cores, w) : TRUE) \in Claims(cores, w)
  OBVIOUS
<1>. QED  BY <1>1, <1>2 DEF Union, Handlers

\* A union binds a verb to one of its claims, if there is any.
LEMMA UnionClaims ==
  ASSUME NEW cores \in SUBSET Core, NEW v \in Verb
  PROVE  /\ Claims(cores, v) # {} => Union(cores)[v] \in Claims(cores, v)
         /\ Claims(cores, v) = {} => Union(cores)[v] = NoHandler
         /\ Claims(cores, v) \subseteq Handler
<1>1. \A w \in Verb : Claims(cores, w) \subseteq Handler
  BY RegistriesOfCores DEF Claims
<1>2. \A w \in Verb : Claims(cores, w) # {} => (CHOOSE h \in Claims(cores, w) : TRUE) \in Claims(cores, w)
  OBVIOUS
<1>. QED  BY <1>1, <1>2 DEF Union, Handlers

\* Where the declared cores are, their verbs are bound to their own handlers.
LEMMA DeclaredBound ==
  ASSUME NEW cores \in SUBSET Core, Declared \subseteq cores, ~Collides(cores), NEW v \in Verb
  PROVE  /\ v \in DeclaredVerbs => Union(cores)[v] # NoHandler
         /\ \A c \in Declared : Registry[c][v] \in {NoHandler, Union(cores)[v]}
<1>1. Claims(Declared, v) \subseteq Claims(cores, v)
  BY DEF Claims
<1>2. v \in DeclaredVerbs => Union(cores)[v] # NoHandler
  BY <1>1, UnionClaims, RegistriesOfCores DEF DeclaredVerbs
<1>3. ASSUME NEW c \in Declared, Registry[c][v] # NoHandler
      PROVE  Registry[c][v] = Union(cores)[v]
  <2>1. Registry[c][v] \in Claims(cores, v)
    BY <1>3 DEF Claims
  <2>2. Union(cores)[v] \in Claims(cores, v)
    BY <2>1, UnionClaims
  <2>. QED  BY <2>1, <2>2 DEF Collides
<1>. QED  BY <1>2, <1>3

\* A record bound by a declared environment's union is applied by the handler of
\* every declared core that has one, and the declared verbs all have one.
LEMMA WriterHasHandlers ==
  ASSUME ~InstallLate, IInv, NEW p \in Process, checked[p], NEW v \in Verb
  PROVE  /\ v \in DeclaredVerbs => installed[p][v] # NoHandler
         /\ \A c \in Declared : Registry[c][v] \in {NoHandler, installed[p][v]}
<1>1. /\ composed[p] /\ Declared \subseteq env[p]
      /\ ~Collides(env[p]) /\ installed[p] = Union(env[p])
  BY DEF IInv, KeptIsUnion, CheckedHasDeclared
<1>2. env[p] \in SUBSET Core
  BY DEF IInv, TypeOK
<1>. QED  BY <1>1, <1>2, DeclaredBound

\* A composition leaves every process with the union of its environment.
LEMMA ComposingKeeps ==
  ASSUME IInv, NEW p \in Process, InstalledHandlers(p), UNCHANGED env
  PROVE  /\ composed' \in [Process -> BOOLEAN]
         /\ installed' \in [Process -> Handlers]
         /\ composed'[p]
         /\ \A q \in Process : composed[q] => composed'[q]
         /\ KeptIsUnion'
<1>. USE DEF IInv, TypeOK, InstalledHandlers
<1>1. env[p] \in SUBSET Core
  OBVIOUS
<1>2. Union(env[p]) \in Handlers
  BY <1>1, UnionIsHandlers
<1>3. composed' = [composed EXCEPT ![p] = TRUE]
  OBVIOUS
<1>4. installed' = [installed EXCEPT ![p] = IF composed[p] THEN @ ELSE Union(env[p])]
  OBVIOUS
<1>5. installed' \in [Process -> Handlers]
  BY <1>2, <1>4
<1>6. ASSUME ~InstallLate, NEW q \in Process, composed'[q]
      PROVE  ~Collides(env'[q]) /\ installed'[q] = Union(env'[q])
  BY <1>3, <1>4, <1>6 DEF KeptIsUnion
<1>. QED  BY <1>3, <1>5, <1>6 DEF KeptIsUnion

\* A check of the declared cores leaves every checked process with them.
LEMMA CheckingKeeps ==
  ASSUME IInv, NEW p \in Process, WorkflowHandlers(p), UNCHANGED env
  PROVE  /\ composed' \in [Process -> BOOLEAN]
         /\ checked' \in [Process -> BOOLEAN]
         /\ installed' \in [Process -> Handlers]
         /\ checked'[p]
         /\ \A q \in Process : checked[q] => checked'[q]
         /\ \A q \in Process : checked'[q] => composed'[q] /\ Declared \subseteq env'[q]
         /\ KeptIsUnion'
<1>1. /\ checked[p] \/ Declared \subseteq env[p]
      /\ checked' = [checked EXCEPT ![p] = TRUE]
      /\ InstalledHandlers(p)
  BY DEF WorkflowHandlers
<1>2. checked \in [Process -> BOOLEAN]
  BY DEF IInv, TypeOK
<1>3. \A q \in Process : checked[q] => composed[q] /\ Declared \subseteq env[q]
  BY DEF IInv, CheckedHasDeclared
<1>. QED  BY <1>1, <1>2, <1>3, ComposingKeeps

-----------------------------------------------------------------------------
(* The invariant. *)

\* The invariant holds at the start.
LEMMA InitHolds == Init => IInv
<1>. SUFFICES ASSUME Init PROVE IInv
  OBVIOUS
<1>. USE DEF Init
<1>1. TypeOK
  <2>1. Nothing \in Handlers
    BY DEF Nothing, Handlers
  <2>2. <<>> \in Seq(Verb) /\ <<>> \in Seq([verb: Verb, handler: Handler])
    OBVIOUS
  <2>. QED  BY <2>1, <2>2, RegistriesOfCores DEF TypeOK
<1>2. KeptIsUnion /\ CheckedHasDeclared
  BY DEF KeptIsUnion, CheckedHasDeclared
<1>3. AppliedIsPrefix /\ RefusedUndeclared /\ AppliedByOwn
  BY DEF AppliedIsPrefix, RefusedUndeclared, NoLateRefusal, AppliedByOwn, OwnHandlerApplies
<1>. QED  BY <1>1, <1>2, <1>3 DEF IInv

\* What a step leaves of the invariant when the records applied stay as they are.
LEMMA StoreKeeps ==
  ASSUME IInv, UNCHANGED <<applied, cursor>>,
         journal' = journal \/ \E v \in Verb : journal' = Append(journal, v)
  PROVE  AppliedIsPrefix' /\ AppliedByOwn' /\ journal' \in Seq(Verb)
<1>1. journal \in Seq(Verb) /\ Len(journal) \in Nat /\ cursor \in Nat
  BY DEF IInv, TypeOK
<1>2. CASE journal' = journal
  BY <1>1, <1>2 DEF IInv, AppliedIsPrefix, AppliedByOwn, OwnHandlerApplies
<1>3. CASE \E v \in Verb : journal' = Append(journal, v)
  <2>. PICK v \in Verb : journal' = Append(journal, v)
    BY <1>3
  <2>1. /\ journal' \in Seq(Verb)
        /\ Len(journal') = Len(journal) + 1
        /\ \A i \in 1 .. Len(journal) : journal'[i] = journal[i]
    BY <1>1
  <2>. QED  BY <1>1, <2>1 DEF IInv, AppliedIsPrefix, AppliedByOwn, OwnHandlerApplies
<1>. QED  BY <1>2, <1>3

\* One more record applied through the writer's own registry.
LEMMA ApplyNextHolds ==
  ASSUME IInv, NEW p \in Process, ApplyNext(p)
  PROVE  IInv'
<1>. DEFINE v == journal[cursor + 1]
            r == [verb |-> v, handler |-> installed[p][v]]
<1>1. /\ journal \in Seq(Verb) /\ cursor \in Nat /\ cursor < Len(journal)
      /\ applied \in Seq([verb: Verb, handler: Handler])
      /\ installed \in [Process -> Handlers]
      /\ cursor = Len(applied)
  BY DEF IInv, TypeOK, AppliedIsPrefix, ApplyNext
<1>2. v \in Verb /\ cursor + 1 \in 1 .. Len(journal)
  BY <1>1
<1>3. /\ installed[p][v] # NoHandler /\ applied' = Append(applied, r) /\ cursor' = cursor + 1
      /\ writer = p
      /\ UNCHANGED <<env, composed, installed, checked, journal, writer, written, refused>>
  BY DEF ApplyNext, cache
<1>4. r \in [verb: Verb, handler: Handler]
  BY <1>1, <1>2, <1>3 DEF Handlers
<1>5. /\ applied' \in Seq([verb: Verb, handler: Handler])
      /\ Len(applied') = cursor + 1
      /\ applied'[cursor + 1] = r
      /\ \A i \in 1 .. cursor : applied'[i] = applied[i]
  BY <1>1, <1>3, <1>4
<1>6. TypeOK'
  BY <1>1, <1>3, <1>5 DEF IInv, TypeOK
<1>7. AppliedIsPrefix'
  <2>1. \A i \in 1 .. cursor + 1 : applied'[i].verb = journal[i]
    <3>. SUFFICES ASSUME NEW i \in 1 .. cursor + 1 PROVE applied'[i].verb = journal[i]
      OBVIOUS
    <3>1. CASE i = cursor + 1
      BY <1>5, <3>1
    <3>2. CASE i \in 1 .. cursor
      BY <1>5, <3>2 DEF IInv, AppliedIsPrefix
    <3>. QED  BY <1>1, <3>1, <3>2
  <2>. QED  BY <1>1, <1>3, <1>5, <2>1 DEF AppliedIsPrefix
<1>8. AppliedByOwn'
  <2>. SUFFICES ASSUME ~InstallLate, NEW i \in 1 .. cursor + 1, NEW c \in Declared
                PROVE  Registry[c][applied'[i].verb] \in {NoHandler, applied'[i].handler}
    BY <1>1, <1>5 DEF AppliedByOwn, OwnHandlerApplies
  <2>1. checked[p]
    BY <1>3, RegistriesOfCores DEF IInv, CheckedHasDeclared
  <2>2. \A d \in Declared : Registry[d][v] \in {NoHandler, r.handler}
    BY <1>2, <2>1, WriterHasHandlers
  <2>3. CASE i = cursor + 1
    BY <1>5, <2>2, <2>3
  <2>4. CASE i \in 1 .. cursor
    <3>1. i \in DOMAIN applied /\ applied'[i] = applied[i]
      BY <1>1, <1>5, <2>4
    <3>. QED  BY <3>1 DEF IInv, AppliedByOwn, OwnHandlerApplies
  <2>. QED  BY <1>1, <2>3, <2>4
<1>9. (KeptIsUnion /\ CheckedHasDeclared /\ RefusedUndeclared)'
  BY <1>3 DEF IInv, KeptIsUnion, CheckedHasDeclared, RefusedUndeclared, NoLateRefusal
<1>. QED  BY <1>6, <1>7, <1>8, <1>9 DEF IInv

\* A whole rebuild by one process, or its refusal at the first record it has no
\* handler for.
LEMMA RebuildHolds ==
  ASSUME IInv, NEW p \in Process, Rebuild(p)
  PROVE  IInv'
<1>1. /\ writer = NoProcess /\ WorkflowHandlers(p)
      /\ UNCHANGED <<env, journal, writer, written>>
  BY DEF Rebuild
<1>2. /\ composed' \in [Process -> BOOLEAN] /\ checked' \in [Process -> BOOLEAN]
      /\ installed' \in [Process -> Handlers] /\ checked'[p]
      /\ \A q \in Process : checked'[q] => composed'[q] /\ Declared \subseteq env'[q]
      /\ KeptIsUnion'
  BY <1>1, CheckingKeeps
<1>3. CheckedHasDeclared'
  BY <1>1, <1>2 DEF CheckedHasDeclared
<1>4. ASSUME ~InstallLate
      PROVE  \A v \in Verb : /\ v \in DeclaredVerbs => installed'[p][v] # NoHandler
                             /\ \A c \in Declared : Registry[c][v] \in {NoHandler, installed'[p][v]}
  <2>1. /\ ~Collides(env[p]) /\ installed'[p] = Union(env[p]) /\ Declared \subseteq env[p]
    BY <1>1, <1>2, <1>4 DEF KeptIsUnion
  <2>2. env[p] \in SUBSET Core
    BY DEF IInv, TypeOK
  <2>. QED  BY <2>1, <2>2, DeclaredBound
<1>5. journal \in Seq(Verb)
  BY DEF IInv, TypeOK
<1>6. CASE /\ \A i \in DOMAIN journal : installed'[p][journal[i]] # NoHandler
           /\ applied' = [i \in DOMAIN journal |->
                            [verb |-> journal[i], handler |-> installed'[p][journal[i]]]]
           /\ cursor' = Len(journal)
           /\ UNCHANGED refused
  <2>1. DOMAIN journal = 1 .. Len(journal) /\ Len(journal) \in Nat
    BY <1>5
  <2>2. \A i \in 1 .. Len(journal) : applied'[i] \in [verb: Verb, handler: Handler]
    BY <1>2, <1>5, <1>6, <2>1 DEF Handlers
  <2>3. applied' \in Seq([verb: Verb, handler: Handler]) /\ Len(applied') = Len(journal)
    BY <1>6, <2>1, <2>2
  <2>4. TypeOK'
    BY <1>1, <1>2, <1>5, <1>6, <2>1, <2>3 DEF IInv, TypeOK
  <2>5. AppliedIsPrefix'
    BY <1>1, <1>6, <2>1, <2>3 DEF AppliedIsPrefix
  <2>6. AppliedByOwn'
    BY <1>4, <1>5, <1>6, <2>1 DEF AppliedByOwn, OwnHandlerApplies
  <2>7. RefusedUndeclared'
    BY <1>6 DEF IInv, RefusedUndeclared, NoLateRefusal
  <2>. QED  BY <1>2, <1>3, <2>4, <2>5, <2>6, <2>7 DEF IInv
<1>7. ASSUME NEW i \in DOMAIN journal,
             installed'[p][journal[i]] = NoHandler,
             refused' = refused \cup {<<p, journal[i]>>},
             UNCHANGED db
      PROVE  IInv'
  <2>1. journal[i] \in Verb /\ (~InstallLate => journal[i] \notin DeclaredVerbs)
    BY <1>4, <1>5, <1>7
  <2>2. UNCHANGED <<applied, cursor>>
    BY <1>7 DEF db
  <2>3. TypeOK'
    BY <1>1, <1>2, <1>7, <2>1, <2>2 DEF IInv, TypeOK
  <2>4. RefusedUndeclared'
    BY <1>7, <2>1 DEF IInv, RefusedUndeclared, NoLateRefusal
  <2>5. AppliedIsPrefix' /\ AppliedByOwn'
    BY <1>1, <2>2, StoreKeeps
  <2>. QED  BY <1>2, <1>3, <2>3, <2>4, <2>5 DEF IInv
<1>. QED  BY <1>6, <1>7 DEF Rebuild

\* Every other step, one by one.
LEMMA StepHolds ==
  ASSUME IInv, [Next]_vars
  PROVE  IInv'
<1>. USE DEF IInv
<1>1. ASSUME UNCHANGED vars PROVE IInv'
  <2>. USE <1>1 DEF vars
  <2>1. TypeOK' /\ KeptIsUnion' /\ CheckedHasDeclared'
    BY DEF TypeOK, KeptIsUnion, CheckedHasDeclared
  <2>2. RefusedUndeclared'
    BY DEF RefusedUndeclared, NoLateRefusal
  <2>. QED  BY <2>1, <2>2, StoreKeeps
<1>2. ASSUME NEW p \in Process, UnjournaledOp(p) PROVE IInv'
  <2>1. /\ InstalledHandlers(p)
        /\ UNCHANGED <<env, checked, journal, applied, cursor, writer, written, refused>>
    BY <1>2 DEF UnjournaledOp, db
  <2>2. /\ composed' \in [Process -> BOOLEAN] /\ installed' \in [Process -> Handlers]
        /\ \A q \in Process : composed[q] => composed'[q]
        /\ KeptIsUnion'
    BY <2>1, ComposingKeeps
  <2>3. TypeOK' /\ CheckedHasDeclared' /\ RefusedUndeclared'
    BY <2>1, <2>2 DEF TypeOK, CheckedHasDeclared, RefusedUndeclared, NoLateRefusal
  <2>. QED  BY <2>1, <2>2, <2>3, StoreKeeps
<1>3. ASSUME NEW p \in Process, OpenWriter(p) PROVE IInv'
  <2>1. /\ WorkflowHandlers(p) /\ writer' = p /\ written' = FALSE
        /\ UNCHANGED <<env, journal, applied, cursor, refused>>
    BY <1>3 DEF OpenWriter, db
  <2>2. /\ composed' \in [Process -> BOOLEAN] /\ checked' \in [Process -> BOOLEAN]
        /\ installed' \in [Process -> Handlers] /\ checked'[p]
        /\ \A q \in Process : checked'[q] => composed'[q] /\ Declared \subseteq env'[q]
        /\ KeptIsUnion'
    BY <2>1, CheckingKeeps
  <2>3. TypeOK' /\ CheckedHasDeclared' /\ RefusedUndeclared'
    BY <2>1, <2>2 DEF TypeOK, CheckedHasDeclared, RefusedUndeclared, NoLateRefusal
  <2>. QED  BY <2>1, <2>2, <2>3, StoreKeeps
<1>4. ASSUME NEW p \in Process, ApplyNext(p) PROVE IInv'
  BY <1>4, ApplyNextHolds
<1>5. ASSUME NEW p \in Process, ApplyRefused(p) PROVE IInv'
  <2>. DEFINE v == journal[cursor + 1]
  <2>1. /\ writer = p /\ cursor < Len(journal) /\ installed[p][v] = NoHandler
        /\ refused' = refused \cup {<<p, v>>} /\ writer' = NoProcess
        /\ UNCHANGED <<env, composed, installed, checked, journal, applied, cursor, written>>
    BY <1>5 DEF ApplyRefused, cache, db
  <2>2. v \in Verb
    BY <2>1 DEF TypeOK
  <2>3. checked[p]
    BY <2>1, RegistriesOfCores DEF CheckedHasDeclared
  <2>4. ~InstallLate => v \notin DeclaredVerbs
    BY <2>1, <2>2, <2>3, WriterHasHandlers
  <2>5. TypeOK' /\ KeptIsUnion' /\ CheckedHasDeclared'
    BY <2>1, <2>2 DEF TypeOK, KeptIsUnion, CheckedHasDeclared
  <2>6. RefusedUndeclared'
    BY <2>1, <2>4 DEF RefusedUndeclared, NoLateRefusal
  <2>. QED  BY <2>1, <2>5, <2>6, StoreKeeps
<1>6. ASSUME NEW p \in Process, NEW v \in Verb, Land(p, v) PROVE IInv'
  <2>1. /\ journal' = Append(journal, v) /\ written' = TRUE
        /\ UNCHANGED <<env, composed, installed, checked, applied, cursor, writer, refused>>
    BY <1>6 DEF Land, cache, db
  <2>2. AppliedIsPrefix' /\ AppliedByOwn' /\ journal' \in Seq(Verb)
    BY <2>1, StoreKeeps
  <2>3. TypeOK' /\ KeptIsUnion' /\ CheckedHasDeclared' /\ RefusedUndeclared'
    BY <2>1, <2>2 DEF TypeOK, KeptIsUnion, CheckedHasDeclared, RefusedUndeclared, NoLateRefusal
  <2>. QED  BY <2>2, <2>3
<1>7. ASSUME NEW p \in Process, Close(p) PROVE IInv'
  <2>1. /\ writer' = NoProcess
        /\ UNCHANGED <<env, composed, installed, checked, journal, applied, cursor, written, refused>>
    BY <1>7 DEF Close, cache, db
  <2>2. TypeOK' /\ KeptIsUnion' /\ CheckedHasDeclared' /\ RefusedUndeclared'
    BY <2>1 DEF TypeOK, KeptIsUnion, CheckedHasDeclared, RefusedUndeclared, NoLateRefusal
  <2>. QED  BY <2>1, <2>2, StoreKeeps
<1>8. ASSUME NEW p \in Process, Rebuild(p) PROVE IInv'
  BY <1>8, RebuildHolds
<1>9. ASSUME NEW p \in Process, NEW cores \in Environments, Restart(p, cores) PROVE IInv'
  <2>1. /\ env' = [env EXCEPT ![p] = cores]
        /\ composed' = [composed EXCEPT ![p] = FALSE]
        /\ installed' = [installed EXCEPT ![p] = Nothing]
        /\ checked' = [checked EXCEPT ![p] = FALSE]
        /\ writer' = IF writer = p THEN NoProcess ELSE writer
        /\ UNCHANGED <<journal, applied, cursor, written, refused>>
    BY <1>9 DEF Restart, db
  <2>2. cores \subseteq Core /\ Nothing \in Handlers
    BY RegistriesOfCores DEF Nothing, Handlers
  <2>3. TypeOK'
    BY <2>1, <2>2 DEF TypeOK
  <2>4. KeptIsUnion'
    BY <2>1 DEF KeptIsUnion, TypeOK
  <2>5. CheckedHasDeclared' /\ RefusedUndeclared'
    BY <2>1 DEF CheckedHasDeclared, RefusedUndeclared, NoLateRefusal, TypeOK
  <2>. QED  BY <2>1, <2>3, <2>4, <2>5, StoreKeeps
<1>10. ASSUME NEW p \in Process, NEW c \in Core, Install(p, c) PROVE IInv'
  <2>1. /\ InstallLate \/ ~composed[p]
        /\ env' = [env EXCEPT ![p] = @ \cup {c}]
        /\ UNCHANGED <<composed, installed, checked, journal, applied, cursor, writer, written, refused>>
    BY <1>10 DEF Install, cache, db
  <2>2. TypeOK' /\ KeptIsUnion' /\ CheckedHasDeclared' /\ RefusedUndeclared'
    BY <2>1 DEF TypeOK, KeptIsUnion, CheckedHasDeclared, RefusedUndeclared, NoLateRefusal
  <2>. QED  BY <2>1, <2>2, StoreKeeps
<1>. QED
  BY <1>1, <1>2, <1>3, <1>4, <1>5, <1>6, <1>7, <1>8, <1>9, <1>10 DEF Next

-----------------------------------------------------------------------------
(* What the lane may rely on. *)

\* The inductive invariant, for every set of cores, registries, environments and
\* processes.
THEOREM InvariantHolds == Spec => []IInv
<1>1. Init => IInv
  BY InitHolds
<1>2. IInv /\ [Next]_vars => IInv'
  BY StepHolds
<1>. QED  BY <1>1, <1>2, PTL DEF Spec

\* The records applied are the journal's first ones, none passed over.
LEMMA PrefixIsNothingDropped == TypeOK /\ AppliedIsPrefix => NothingDropped
<1>. SUFFICES ASSUME TypeOK, AppliedIsPrefix PROVE NothingDropped
  OBVIOUS
<1>1. /\ journal \in Seq(Verb) /\ cursor \in Nat /\ cursor = Len(applied) /\ cursor <= Len(journal)
      /\ applied \in Seq([verb: Verb, handler: Handler])
      /\ \A i \in 1 .. cursor : applied[i].verb = journal[i]
  BY DEF TypeOK, AppliedIsPrefix
<1>2. SubSeq(journal, 1, cursor) = [i \in 1 .. cursor |-> journal[i]]
  BY <1>1
<1>3. DOMAIN applied = 1 .. cursor
  BY <1>1
<1>. QED  BY <1>1, <1>2, <1>3 DEF NothingDropped

\* Types: above all, no record is applied by a handler that is none.
THEOREM TypeCorrect == Spec => []TypeOK
<1>1. IInv => TypeOK
  BY DEF IInv
<1>. QED  BY <1>1, InvariantHolds, PTL

\* No process drops a record it has no handler for, whatever its environment
\* lacks (journal.py, apply_op).
THEOREM NothingDroppedHolds == Spec => []NothingDropped
<1>1. IInv => NothingDropped
  BY PrefixIsNothingDropped DEF IInv
<1>. QED  BY <1>1, InvariantHolds, PTL

\* A record of a declared core's verb never meets a writer or a rebuild that
\* cannot apply it (journal.py, workflow_handlers).
THEOREM NoLateRefusalHolds ==
  ASSUME ~InstallLate
  PROVE  Spec => []NoLateRefusal
<1>1. IInv => NoLateRefusal
  BY DEF IInv, RefusedUndeclared
<1>. QED  BY <1>1, InvariantHolds, PTL

\* A declared core's records are applied by its own handler, by whoever applies
\* them (journal.py, composed_replay_handlers).
THEOREM OwnHandlerHolds ==
  ASSUME ~InstallLate
  PROVE  Spec => []OwnHandlerApplies
<1>1. IInv => OwnHandlerApplies
  BY DEF IInv, AppliedByOwn
<1>. QED  BY <1>1, InvariantHolds, PTL
=============================================================================
