------------------------------ MODULE ApiServer ------------------------------
(***************************************************************************)
(* The custom resources as the API server stores them, and the informer    *)
(* cache the controller reads, which follows the server one watch event at *)
(* a time and puts what it hears of into the queue.  The checksum of a     *)
(* spec is any function of it, so it may collide (api/v1alpha1:            *)
(* CalculateChecksum is an Adler-32).                                      *)
(***************************************************************************)
EXTENDS Sequences, CloudFormation, WorkQueue

CONSTANTS
  Sum,            \* checksums
  NoSum,          \* the checksum of a resource that was never reconciled
  NoName,         \* the changeset name of one that has no change set yet
  Checksum(_)     \* CalculateChecksum, of a spec

VARIABLES
  obj,            \* obj[c]: the resource as stored
  cache,          \* cache[c]: the resource as the informer knows it
  watch           \* watch[c]: its later versions, on their way to the cache

apiVars == <<obj, cache, watch>>

\* A spec is the body the user asks for, and whether region, roles, account
\* and external id are all filled in.
StackSpec == [body : AnyBody, defaulted : BOOLEAN]

Phase == {"", "Success", "Failure", "InProgress", "Update InProgress"}

ASSUME ChecksumIsASum == \A sp \in StackSpec : Checksum(sp) \in Sum
ASSUME NoSumIsNoSum == NoSum \notin Sum

Status == [phase : Phase, checksum : Sum \cup {NoSum},
           changeset : ChangeSetName \cup {NoName}]

Object == [present : BOOLEAN, deleting : BOOLEAN, spec : StackSpec,
           status : Status]

Submitted(b, d) ==
  [present |-> TRUE, deleting |-> FALSE,
   spec    |-> [body |-> b, defaulted |-> d],
   status  |-> [phase |-> "", checksum |-> NoSum, changeset |-> NoName]]

NoObj == [Submitted(NoBody, FALSE) EXCEPT !.present = FALSE]

ApiTypeOK ==
  /\ obj \in [CR -> Object]
  /\ cache \in [CR -> Object]
  /\ watch \in [CR -> Seq(Object)]

ApiInit ==
  /\ obj = [c \in CR |-> NoObj]
  /\ cache = [c \in CR |-> NoObj]
  /\ watch = [c \in CR |-> <<>>]

\* The server stores o and tells the watchers.
Store(c, o) ==
  /\ obj' = [obj EXCEPT ![c] = o]
  /\ watch' = [watch EXCEPT ![c] = Append(@, o)]
  /\ UNCHANGED cache

\* The cache moves on by one event, and its resource has to be processed.
Deliver(c) ==
  /\ watch[c] # <<>>
  /\ cache' = [cache EXCEPT ![c] = Head(watch[c])]
  /\ watch' = [watch EXCEPT ![c] = Tail(@)]
  /\ UNCHANGED obj
  /\ Add(c)

\* A mutant of Resync: what the cache has already is not told again.
ResyncSilently(c) == cache[c].present /\ UNCHANGED <<queueVars, apiVars>>

\* Every ten hours the informer tells of all that is in the cache.
Resync(c) ==
  /\ cache[c].present
  /\ Add(c)
  /\ UNCHANGED apiVars

\* A mutant of Relist: only what changes after the restart is processed.
RelistSilently ==
  /\ cache' = obj
  /\ watch' = [c \in CR |-> <<>>]
  /\ dirty' = {} /\ processing' = {} /\ delayed' = {}
  /\ UNCHANGED obj

\* A restart: a new informer lists the resources, and each is processed.
Relist ==
  /\ cache' = obj
  /\ watch' = [c \in CR |-> <<>>]
  /\ dirty' = {c \in CR : obj[c].present}
  /\ processing' = {} /\ delayed' = {}
  /\ UNCHANGED obj
=============================================================================
