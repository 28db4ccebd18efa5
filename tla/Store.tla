------------------------------- MODULE Store -------------------------------
(***************************************************************************)
(* The directory tree ("ipc") that a recipient Porter shares with its      *)
(* local Host processes, the locks taken on it and the memory of the       *)
(* processes at work on it.  Every file is replaced whole (atomic_json,    *)
(* atomic_text), so a file is one value; a process may die between any two *)
(* replacements.                                                           *)
(***************************************************************************)
EXTENDS Naturals, FiniteSets

CONSTANTS
  Packages,      \* PKG-... identities
  AcceptanceIds, \* AC-... identities, fresh for one Package (uuid4)
  CollectionIds, \* CL-... identities, fresh (uuid4)
  Relationships, \* sender-to-recipient pairs that hold an Introduction
  Relationship,  \* the relationship of a Package; None at an open Porter
  Porter,        \* the starting thread of the Porter process
  Handlers,      \* the request threads of the Porter process
  Hosts,         \* Host Runtime processes
  Callers,       \* processes that collect the Return of a Collection Ticket
  None           \* no identity, no Package, no holder

Workers    == {Porter} \cup Handlers \cup Hosts \cup Callers
Recoverers == {Porter} \cup Hosts

\* A CL fact: collections/facts/<collection>.json.
Fact == [collection : CollectionIds, package : Packages,
         acceptance : AcceptanceIds]

ASSUME WorkersDistinct ==
  /\ Porter \notin Handlers \cup Hosts \cup Callers
  /\ Handlers \cap (Hosts \cup Callers) = {}
  /\ Hosts \cap Callers = {}

ASSUME NoneDistinct ==
  None \notin Packages \cup AcceptanceIds \cup CollectionIds \cup Fact
              \cup Relationships \cup Workers

ASSUME RelationshipType ==
  Relationship \in [Packages -> Relationships \cup {None}]

VARIABLES
  acceptances,      \* acceptances/<package>.json: the AC it names, or None
  inbox,            \* inbox/<package>.json
  collected,        \* collected/<package>.json
  association,      \* collections/by-package/<package>: the CL it names
  older,            \* earlier entries of by-package a power cut may restore
  unlinked,         \* inbox entries removed since inbox/ was last fsynced
  facts,            \* collections/facts
  frontier,         \* CL facts of frontier.json; {} once a signature is stale
  readable,         \* does candidates/candidates.sqlite3 answer a statement?
  projection,       \* and the rows in it
  packageLock,      \* flock of collections/locks/<package>.lock
  projectionLock,   \* flock of candidates/.projection.lock
  frontierLock,     \* flock of collections/locks/RECOVERY-FRONTIER.lock
  relationshipLock, \* flock of a relationship
  pc,               \* where each worker is
  job,              \* the Package it is working on
  answer,           \* the AC a handler will answer with
  claim,            \* the CL fact a collector or a recoverer holds
  listing,          \* rebuild's directory listing (of projectionLock's holder)
  audit,            \* CL facts a recovery has listed (of frontierLock's holder)
  todo,             \* and those of them it has yet to materialize
  unrestored,       \* acceptances the starting Porter has yet to look at
  receipts,         \* acceptance evidence that has left this Porter
  crashes           \* crashes so far

inboxVars       == <<inbox, unlinked>>
associationVars == <<association, older, frontier>>
projectionVars  == <<readable, projection>>
storeVars   == <<acceptances, facts, collected, inboxVars, associationVars,
                 projectionVars>>
lockVars    == <<packageLock, projectionLock, frontierLock, relationshipLock>>
workerVars  == <<pc, job, answer, claim>>
passVars    == <<listing, audit, todo, unrestored>>
historyVars == <<receipts, crashes>>
vars == <<storeVars, lockVars, workerVars, passVars, historyVars>>

Accepted == {p \in Packages : acceptances[p] # None}
Associated == {p \in Packages : association[p] # None}

Labels == {"down", "ready",
           "acceptances", "restore", "recover", "audit", "rebuild",
           "relationship", "accept", "write", "inbox", "repair", "check",
           "publish", "list", "replace", "reply",
           "lock", "reserve", "fact", "collected", "associate", "unlink",
           "settle"}

TypeOK ==
  /\ acceptances \in [Packages -> AcceptanceIds \cup {None}]
  /\ inbox \subseteq Packages /\ collected \subseteq Packages
  /\ association \in [Packages -> CollectionIds \cup {None}]
  /\ older \in [Packages -> SUBSET (CollectionIds \cup {None})]
  /\ unlinked \subseteq Packages
  /\ facts \subseteq Fact /\ frontier \subseteq Fact
  /\ readable \in BOOLEAN /\ projection \subseteq Packages
  /\ packageLock \in [Packages -> Workers \cup {None}]
  /\ projectionLock \in Workers \cup {None}
  /\ frontierLock \in Recoverers \cup {None}
  /\ relationshipLock \in [Relationships -> Handlers \cup {None}]
  /\ pc \in [Workers -> Labels]
  /\ job \in [Workers -> Packages \cup {None}]
  /\ answer \in [Handlers -> AcceptanceIds \cup {None}]
  /\ claim \in [Workers -> Fact \cup {None}]
  /\ listing \subseteq Packages
  /\ audit \subseteq Fact /\ todo \subseteq Fact
  /\ unrestored \subseteq Packages
  /\ receipts \subseteq [package : Packages, acceptance : AcceptanceIds]
  /\ crashes \in Nat

Goto(w, label) == pc' = [pc EXCEPT ![w] = label]

\* A file that the frontier has a stat signature of was replaced: the record
\* no longer matches, and one bad record discards the frontier.
FrontierWithout(p) ==
  IF \E f \in frontier : f.package = p THEN {} ELSE frontier

\* atomic_json fsyncs the directory, and every earlier unlink in it.
WriteInbox(p) ==
  /\ inbox' = inbox \cup {p}
  /\ unlinked' = {}
============================================================================
