----------------------------- MODULE Registries -----------------------------
(***************************************************************************)
(* Replay registries (journal.py): which handler applies a journaled verb, *)
(* live, in a heal and in a rebuild, when every process finds the cores    *)
(* that are installed in its own environment.                              *)
(*                                                                         *)
(* A process composes the union of the installed registries once and keeps *)
(* it; a writer opens only where the lane's declared registries are all    *)
(* installed.  A refused composition is not kept.  The file, the lock and  *)
(* the db's graph are WriteOrder's: here a db is the records applied to it, *)
(* each with the handler that applied it.                                  *)
(***************************************************************************)
EXTENDS Integers, Sequences

CONSTANTS
  Process,      \* processes that write and rebuild
  NoProcess,    \* no writer is open
  Core,         \* cores that exist, by their entry-point names
  Declared,     \* the cores the workflow lane declares
  Verb,         \* domain verbs
  Handler,      \* handler objects
  NoHandler,    \* in a registry: the verb is not registered
  Registry,     \* core -> verb -> its handler, or NoHandler
  Environments, \* the sets of cores an environment may hold as a process starts
  InstallLate,  \* whether an environment may gain a core after the process in it composed
  MaxOps        \* bound on the journal's length

ASSUME RegistriesOfCores ==
  /\ Declared \subseteq Core /\ Environments \subseteq SUBSET Core
  /\ NoHandler \notin Handler /\ NoProcess \notin Process
  /\ Registry \in [Core -> [Verb -> Handler \cup {NoHandler}]]
ASSUME RegistriesBounds == InstallLate \in BOOLEAN /\ MaxOps \in Nat

Handlers == [Verb -> Handler \cup {NoHandler}]

\* No composition is kept.
Nothing == [v \in Verb |-> NoHandler]

VARIABLES
  env,       \* process -> the cores installed where it runs
  composed,  \* process -> whether installed_handlers has an answer
  installed, \* process -> that answer
  checked,   \* process -> whether workflow_handlers has one: the same mapping
  journal,   \* the verbs of the landed records
  applied,   \* the records applied to the live db, with their handlers
  cursor,    \* its applied cursor
  writer,    \* the process whose writer is open, or NoProcess
  written,   \* whether that writer has landed its own op
  refused    \* history variable: <<process, verb>> no handler was found for

cache == <<composed, installed, checked>>
db == <<applied, cursor>>
vars == <<env, composed, installed, checked, journal, applied, cursor, writer, written, refused>>

Init ==
  /\ env \in [Process -> Environments]
  /\ composed = [p \in Process |-> FALSE]
  /\ installed = [p \in Process |-> Nothing]
  /\ checked = [p \in Process |-> FALSE]
  /\ journal = <<>>
  /\ applied = <<>> /\ cursor = 0
  /\ writer = NoProcess /\ written = FALSE
  /\ refused = {}

-----------------------------------------------------------------------------
(* Composing registries. *)

\* The handler objects that some cores bind a verb to.
Claims(cores, v) == {Registry[c][v] : c \in cores} \ {NoHandler}

\* Two cores claim one verb with different handlers; the same object is legal.
Collides(cores) == \E v \in Verb : \E h, k \in Claims(cores, v) : h # k

Union(cores) ==
  [v \in Verb |-> IF Claims(cores, v) = {} THEN NoHandler ELSE CHOOSE h \in Claims(cores, v) : TRUE]

\* Mutant: the registries are merged, and the last one's handler stays.
InstalledHandlersLast(p) ==
  /\ composed' = [composed EXCEPT ![p] = TRUE]
  /\ installed' = [installed EXCEPT ![p] =
       IF composed[p] THEN @
       ELSE [v \in Verb |-> IF Claims(env[p] \ Declared, v) = {} THEN Union(env[p])[v]
                            ELSE Union(env[p] \ Declared)[v]]]

\* installed_handlers: composed at its first call, kept to the process's end.
InstalledHandlers(p) ==
  /\ composed[p] \/ ~Collides(env[p])
  /\ composed' = [composed EXCEPT ![p] = TRUE]
  /\ installed' = [installed EXCEPT ![p] = IF composed[p] THEN @ ELSE Union(env[p])]

\* Mutant: the declared registries are not asked for.
WorkflowHandlersUndeclared(p) ==
  /\ checked' = [checked EXCEPT ![p] = TRUE]
  /\ InstalledHandlers(p)

\* workflow_handlers: the environment as it is now must hold every declared
\* core, then the composition is the one the process keeps.
WorkflowHandlers(p) ==
  /\ checked[p] \/ Declared \subseteq env[p]
  /\ checked' = [checked EXCEPT ![p] = TRUE]
  /\ InstalledHandlers(p)

-----------------------------------------------------------------------------
(* The processes. *)

\* An explicitly unjournaled op needs only the handlers installed.
UnjournaledOp(p) ==
  /\ InstalledHandlers(p)
  /\ UNCHANGED <<env, checked, journal, db, writer, written, refused>>

\* The writer opens, holds the lock, and heals.
OpenWriter(p) ==
  /\ writer = NoProcess
  /\ WorkflowHandlers(p)
  /\ writer' = p
  /\ written' = FALSE
  /\ UNCHANGED <<env, journal, db, refused>>

\* Mutant: whatever the registry holds for the verb is taken for its handler.
ApplyNextUnguarded(p) ==
  /\ writer = p
  /\ cursor < Len(journal)
  /\ LET v == journal[cursor + 1] IN
     applied' = Append(applied, [verb |-> v, handler |-> installed[p][v]])
  /\ cursor' = cursor + 1
  /\ UNCHANGED <<env, cache, journal, writer, written, refused>>

\* Mutant: a verb without a handler is passed over.
ApplyNextOrSkip(p) ==
  /\ writer = p
  /\ cursor < Len(journal)
  /\ LET v == journal[cursor + 1] IN
     applied' = IF installed[p][v] = NoHandler THEN applied
                ELSE Append(applied, [verb |-> v, handler |-> installed[p][v]])
  /\ cursor' = cursor + 1
  /\ UNCHANGED <<env, cache, journal, writer, written, refused>>

\* The next record past the cursor, healed or just landed, through its handler.
ApplyNext(p) ==
  /\ writer = p
  /\ cursor < Len(journal)
  /\ LET v == journal[cursor + 1] IN
     /\ installed[p][v] # NoHandler
     /\ applied' = Append(applied, [verb |-> v, handler |-> installed[p][v]])
  /\ cursor' = cursor + 1
  /\ UNCHANGED <<env, cache, journal, writer, written, refused>>

\* No handler for the verb: the op is not dropped, the writer fails.
ApplyRefused(p) ==
  /\ writer = p
  /\ cursor < Len(journal)
  /\ installed[p][journal[cursor + 1]] = NoHandler
  /\ refused' = refused \cup {<<p, journal[cursor + 1]>>}
  /\ writer' = NoProcess
  /\ UNCHANGED <<env, cache, journal, db, written>>

\* A verb of an installed core lands its op.
Land(p, v) ==
  /\ writer = p
  /\ cursor = Len(journal)
  /\ ~written
  /\ Len(journal) < MaxOps
  /\ Claims(env[p], v) # {}
  /\ journal' = Append(journal, v)
  /\ written' = TRUE
  /\ UNCHANGED <<env, cache, db, writer, refused>>

Close(p) ==
  /\ writer = p
  /\ cursor = Len(journal)
  /\ writer' = NoProcess
  /\ UNCHANGED <<env, cache, journal, db, written, refused>>

\* A fresh db takes the live one's place, if every record has a handler.
Rebuild(p) ==
  /\ writer = NoProcess
  /\ WorkflowHandlers(p)
  /\ \/ /\ \A i \in DOMAIN journal : installed'[p][journal[i]] # NoHandler
        /\ applied' = [i \in DOMAIN journal |->
                         [verb |-> journal[i], handler |-> installed'[p][journal[i]]]]
        /\ cursor' = Len(journal)
        /\ UNCHANGED refused
     \/ \E i \in DOMAIN journal :
          /\ installed'[p][journal[i]] = NoHandler
          /\ \A j \in 1 .. i - 1 : installed'[p][journal[j]] # NoHandler
          /\ refused' = refused \cup {<<p, journal[i]>>}
          /\ UNCHANGED db
  /\ UNCHANGED <<env, journal, writer, written>>

\* The process ends, at any step, and another starts in its place, in an
\* environment that may hold other cores by now.
Restart(p, cores) ==
  /\ env' = [env EXCEPT ![p] = cores]
  /\ composed' = [composed EXCEPT ![p] = FALSE]
  /\ installed' = [installed EXCEPT ![p] = Nothing]
  /\ checked' = [checked EXCEPT ![p] = FALSE]
  /\ writer' = IF writer = p THEN NoProcess ELSE writer
  /\ UNCHANGED <<journal, db, written, refused>>

\* A core is installed under a running process.
Install(p, c) ==
  /\ composed[p] => InstallLate
  /\ c \notin env[p]
  /\ env' = [env EXCEPT ![p] = @ \cup {c}]
  /\ UNCHANGED <<cache, journal, db, writer, written, refused>>

Next ==
  \E p \in Process :
    \/ UnjournaledOp(p)
    \/ OpenWriter(p)
    \/ ApplyNext(p)
    \/ ApplyRefused(p)
    \/ \E v \in Verb : Land(p, v)
    \/ Close(p)
    \/ Rebuild(p)
    \/ \E cores \in Environments : Restart(p, cores)
    \/ \E c \in Core : Install(p, c)

Spec == Init /\ [][Next]_vars

-----------------------------------------------------------------------------
(* Properties. *)

TypeOK ==
  /\ env \in [Process -> SUBSET Core]
  /\ composed \in [Process -> BOOLEAN] /\ checked \in [Process -> BOOLEAN]
  /\ installed \in [Process -> Handlers]
  /\ journal \in Seq(Verb)
  /\ applied \in Seq([verb: Verb, handler: Handler])
  /\ cursor \in Nat
  /\ writer \in Process \cup {NoProcess} /\ written \in BOOLEAN
  /\ refused \subseteq Process \X Verb

\* The verbs the lane's declared cores register.
DeclaredVerbs == {v \in Verb : Claims(Declared, v) # {}}

\* Every record up to the cursor was applied, in its place: no process drops
\* one it has no handler for, whatever its environment lacks (journal.py,
\* apply_op: an unregistered verb raises).
NothingDropped == [i \in DOMAIN applied |-> applied[i].verb] = SubSeq(journal, 1, cursor)

\* A record of a declared core's verb never meets a writer or a rebuild that
\* cannot apply it: an environment that lacks the core is refused at the open,
\* before anything is read (journal.py, workflow_handlers).
NoLateRefusal == \A r \in refused : r[2] \notin DeclaredVerbs

\* However the environments of those that wrote, healed and rebuilt differ, a
\* declared core's records are applied by that core's own handler: live and
\* rebuild agree (journal.py, composed_replay_handlers: different objects refuse).
OwnHandlerApplies ==
  \A i \in DOMAIN applied :
    \A c \in Declared : Registry[c][applied[i].verb] \in {NoHandler, applied[i].handler}

\* The same of every verb, those of undeclared cores included.
OneHandlerPerVerb ==
  \A i, j \in DOMAIN applied :
    applied[i].verb = applied[j].verb => applied[i].handler = applied[j].handler

=============================================================================
