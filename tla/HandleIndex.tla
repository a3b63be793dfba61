----------------------------- MODULE HandleIndex -----------------------------
(***************************************************************************)
(* What the symbol handles of the index promise to those who read it: a    *)
(* publication adds one snapshot that names stored symbols by their        *)
(* handles and gives new symbols handles that no symbol has; a prune       *)
(* removes superseded snapshots and symbols that nothing names any more,   *)
(* and moves the epoch.  How numbers are chosen, raced for and retried is  *)
(* SymbolHandles' business.                                                *)
(***************************************************************************)
EXTENDS Integers

CONSTANTS Roots, Symbols, Handles, NoHandle, MaxPublications

ASSUME IndexConstants == MaxPublications \in Nat /\ NoHandle \notin Handles

VARIABLES
  handle,    \* symbols.handle, NoHandle without a row
  live,      \* snapshots, as pairs of a root and a number
  rows,      \* which symbols snapshots name, and by which handle
  head,      \* a root's head snapshot, 0 before its first
  epoch,     \* history_prunes.epoch
  published  \* snapshots published, numbered in order

indexVars == <<handle, live, rows, head, epoch, published>>

IndexInit ==
  /\ handle = [s \in Symbols |-> NoHandle]
  /\ live = {}
  /\ rows = {}
  /\ head = [r \in Roots |-> 0]
  /\ epoch = 0
  /\ published = 0

StoredUnder(h) == {s \in Symbols : h[s] # NoHandle}

PublishSnapshot(root, named) ==
  /\ published < MaxPublications
  /\ published' = published + 1
  /\ UNCHANGED epoch
  /\ handle' \in [Symbols -> Handles \cup {NoHandle}]
  /\ \A s \in StoredUnder(handle) : handle'[s] = handle[s]
  /\ \A s, t \in StoredUnder(handle') : handle'[s] = handle'[t] => s = t
  /\ named \subseteq StoredUnder(handle')
  /\ rows' = rows \cup {[root |-> root, snapshot |-> published + 1,
                         handle |-> handle'[s], means |-> s] : s \in named}
  /\ live' = live \cup {<<root, published + 1>>}
  /\ head' = [head EXCEPT ![root] = published + 1]

PruneSnapshots(root, gone, orphans) ==
  /\ epoch' = epoch + 1
  /\ UNCHANGED <<head, published>>
  /\ gone # {}
  /\ gone \subseteq {x \in live : x[1] = root /\ x[2] # head[root]}
  /\ live' = live \ gone
  /\ rows' = {r \in rows : <<r.root, r.snapshot>> \notin gone}
  /\ \A s \in orphans, r \in rows' : r.handle # handle[s]
  /\ handle' = [s \in Symbols |-> IF s \in orphans THEN NoHandle ELSE handle[s]]

IndexNext ==
  \E root \in Roots :
    \/ \E named \in SUBSET Symbols : PublishSnapshot(root, named)
    \/ \E gone \in SUBSET live, orphans \in SUBSET StoredUnder(handle) :
         PruneSnapshots(root, gone, orphans)

IndexSpec == IndexInit /\ [][IndexNext]_indexVars
=============================================================================
