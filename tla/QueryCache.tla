------------------------------ MODULE QueryCache ------------------------------
(***************************************************************************)
(* The cache one query pipeline keeps over the index (HandleIndex, which   *)
(* SymbolHandles implements) while publishers and pruners write it.  What  *)
(* heads select lives in a generation, replaced when the cache token       *)
(* changes; symbol rows and snapshot facts are kept across generations and *)
(* discarded when the prune epoch moves.  Queries run concurrently; each   *)
(* statement reads the database as it is then, and each use of a mutex is  *)
(* one step.                                                               *)
(*                                                                         *)
(* A query names one symbol of one root.  A running query may still hold a *)
(* generation or symbol facts that were replaced; a number no longer held  *)
(* is used again.                                                          *)
(***************************************************************************)
EXTENDS HandleIndex, FiniteSets

CONSTANTS
  Queries,
  AsksFor,  \* the symbols a query may name
  Nothing

ASSUME QueryConstants ==
  /\ IsFiniteSet(Queries)
  /\ AsksFor \in [Queries -> SUBSET Symbols]
  /\ Nothing \notin 0..MaxPublications

VARIABLES
  generations,  \* cacheGeneration objects: the token and kept selections
  current,      \* indexCache.generation, 0 for nil
  facts,        \* symbolFacts objects: pairs of a symbol and its handle
  symbols,      \* indexCache.symbols
  query

cacheVars == <<generations, current, facts, symbols, query>>
vars == <<indexVars, cacheVars>>

\* Each query holds one of each, and the cache one.
Objects == 1..(Cardinality(Queries) + 1)
NoGeneration == [token |-> Nothing, selection |-> [r \in Roots |-> Nothing]]
\* began and saw are the epoch and the root's head when the query began.
NoQuery == [phase |-> "idle", symbol |-> Nothing, root |-> Nothing, began |-> 0, saw |-> 0,
            token |-> Nothing, generation |-> 0, scope |-> Nothing, facts |-> 0,
            handle |-> NoHandle, answer |-> {}]

CacheInit ==
  /\ IndexInit
  /\ generations = [g \in Objects |-> NoGeneration]
  /\ current = 0
  /\ facts = [f \in Objects |-> {}]
  /\ symbols = 1
  /\ query = [q \in Queries |-> NoQuery]

Move(q, state) == query' = [query EXCEPT ![q] = state]
HeldGenerations == {current} \cup {query[q].generation : q \in Queries}
HeldFacts == {symbols} \cup {query[q].facts : q \in Queries}
Unused(held) == CHOOSE o \in Objects : o \notin held

-----------------------------------------------------------------------------
(* indexCache.current: validate the cache once per query.                  *)

\* readCacheToken takes several statements: the heads and primaries, ...
Start(q, s, r) ==
  /\ query[q].phase = "idle"
  /\ Move(q, [NoQuery EXCEPT !.phase = "heads", !.symbol = s, !.root = r,
                             !.began = epoch, !.saw = head[r],
                             !.token = [heads |-> head, epoch |-> Nothing]])
  /\ UNCHANGED <<indexVars, generations, current, facts, symbols>>

\* ... then the counts with the prune epoch.
ReadCounts(q) ==
  /\ query[q].phase = "heads"
  /\ Move(q, [query[q] EXCEPT !.phase = "token", !.token.epoch = epoch])
  /\ UNCHANGED <<indexVars, generations, current, facts, symbols>>

\* Mutant: only the epoch is compared.
TokenHoldsByEpoch(token) ==
  current # 0 /\ generations[current].token.epoch = token.epoch

TokenHolds(token) == current # 0 /\ generations[current].token = token

\* The kept generation is used while its token still holds; else the kinds are
\* loaded for a new one, outside the lock.
Validate(q) ==
  /\ query[q].phase = "token"
  /\ Move(q, IF TokenHolds(query[q].token)
               THEN [query[q] EXCEPT !.phase = "validated", !.generation = current,
                                        !.token = Nothing]
               ELSE [query[q] EXCEPT !.phase = "loading"])
  /\ UNCHANGED <<indexVars, generations, current, facts, symbols>>

\* Mutant: a prune does not discard what was kept.
DiscardsNever(token) == FALSE

Discards(token) == current # 0 /\ generations[current].token.epoch # token.epoch

Install(q) ==
  LET g == Unused(HeldGenerations)
      f == IF Discards(query[q].token) THEN Unused(HeldFacts) ELSE symbols
  IN
  /\ query[q].phase = "loading"
  /\ generations' = [generations EXCEPT ![g] = [NoGeneration EXCEPT !.token = query[q].token]]
  /\ current' = g
  /\ symbols' = f
  /\ facts' = IF f = symbols THEN facts ELSE [facts EXCEPT ![f] = {}]
  /\ Move(q, [query[q] EXCEPT !.phase = "validated", !.generation = g, !.token = Nothing])
  /\ UNCHANGED indexVars

-----------------------------------------------------------------------------
(* Running the query.                                                      *)

\* moduleScopes: the selection the generation kept, or the head now.
Select(q) ==
  LET kept == generations[query[q].generation].selection[query[q].root] IN
  /\ query[q].phase = "validated"
  /\ Move(q, IF kept # Nothing THEN [query[q] EXCEPT !.phase = "scoped", !.scope = kept, !.generation = 0]
             ELSE [query[q] EXCEPT !.phase = "selected", !.scope = head[query[q].root]])
  /\ UNCHANGED <<indexVars, generations, current, facts, symbols>>

KeepSelection(q) ==
  /\ query[q].phase = "selected"
  /\ generations' = [generations EXCEPT ![query[q].generation].selection[query[q].root] = query[q].scope]
  /\ Move(q, [query[q] EXCEPT !.phase = "scoped", !.generation = 0])
  /\ UNCHANGED <<indexVars, current, facts, symbols>>

\* newIndexContext takes the symbolFacts of the moment and holds on to them.
Capture(q) ==
  /\ query[q].phase = "scoped"
  /\ Move(q, [query[q] EXCEPT !.phase = "captured", !.facts = symbols])
  /\ UNCHANGED <<indexVars, generations, current, facts, symbols>>

\* handlesOf: a handle kept already is not read again ...
HandleKept(q) ==
  /\ query[q].phase = "captured"
  /\ \E pair \in facts[query[q].facts] :
       /\ pair[1] = query[q].symbol
       /\ Move(q, [query[q] EXCEPT !.phase = "looked", !.handle = pair[2]])
  /\ UNCHANGED <<indexVars, generations, current, facts, symbols>>

\* ... but name resolution reads rows whether they are kept or not.  A symbol that
\* is not stored has no answer.
ReadHandle(q) ==
  LET s == query[q].symbol IN
  /\ query[q].phase = "captured"
  /\ Move(q, IF s \in StoredUnder(handle) THEN [query[q] EXCEPT !.phase = "read", !.handle = handle[s]]
             ELSE [query[q] EXCEPT !.phase = "done", !.facts = 0])
  /\ UNCHANGED <<indexVars, generations, current, facts, symbols>>

\* addHandle: a second, different pairing is an error.
KeepHandle(q) ==
  LET pair == <<query[q].symbol, query[q].handle>>
      conflict == \E p \in facts[query[q].facts] :
                    p # pair /\ (p[1] = pair[1] \/ p[2] = pair[2])
  IN /\ query[q].phase = "read"
     /\ Move(q, [query[q] EXCEPT !.phase = IF conflict THEN "conflict" ELSE "looked"])
     /\ facts' = IF conflict THEN facts
                 ELSE [facts EXCEPT ![query[q].facts] = @ \cup {pair}]
     /\ UNCHANGED <<indexVars, generations, current, symbols>>

Names(snapshot, h) == {r \in rows : r.snapshot = snapshot /\ r.handle = h}

\* The postings the scope's snapshot has for the handle.
ReadPostings(q) ==
  /\ query[q].phase = "looked"
  /\ Move(q, [query[q] EXCEPT !.phase = "done", !.facts = 0,
       !.answer = {r.means : r \in Names(query[q].scope, query[q].handle)}])
  /\ UNCHANGED <<indexVars, generations, current, facts, symbols>>

\* The answer or the error is returned.  (A query that is cancelled stops anywhere.)
Return(q) ==
  /\ query[q].phase \in {"done", "conflict"}
  /\ Move(q, NoQuery)
  /\ UNCHANGED <<indexVars, generations, current, facts, symbols>>

RunQuery(q) ==
  \/ \E s \in AsksFor[q], r \in Roots : Start(q, s, r)
  \/ ReadCounts(q) \/ Validate(q) \/ Install(q) \/ Select(q) \/ KeepSelection(q)
  \/ Capture(q) \/ HandleKept(q) \/ ReadHandle(q) \/ KeepHandle(q)
  \/ ReadPostings(q) \/ Return(q)

CacheNext ==
  \/ \E q \in Queries : RunQuery(q)
  \/ IndexNext /\ UNCHANGED cacheVars

CacheSpec == CacheInit /\ [][CacheNext]_vars

-----------------------------------------------------------------------------
(* Properties.                                                             *)

\* No prune committed while the query ran.
Undisturbed(q) == epoch = query[q].began

\* A query that no prune overlaps is answered as if nothing were cached: it reads a
\* snapshot that exists, and gets the symbol it asked for exactly when the snapshot
\* names it, even when the symbol's handle named another symbol before an earlier
\* prune.
QueriesAnswerTheirSymbol ==
  \A q \in Queries : (query[q].phase = "done" /\ Undisturbed(q)) =>
    /\ query[q].scope # 0 => <<query[q].root, query[q].scope>> \in live
    /\ query[q].answer =
         {r.means : r \in {x \in rows : x.snapshot = query[q].scope /\ x.means = query[q].symbol}}

\* Such a query never meets "handle names symbol A, earlier B": what it was handed
\* and what it reads are of the same prune epoch.
HandlesNeverConflict ==
  \A q \in Queries : query[q].phase = "conflict" => ~Undisturbed(q)

\* What is kept of handles never reaches the answer of a query no prune overlaps.
CachedHandlesAreCurrent == QueriesAnswerTheirSymbol /\ HandlesNeverConflict

\* A query reads the head there was when it began, or a later one: a selection kept
\* by a generation is never older than the queries that share it.
SelectionsAreCurrent ==
  \A q \in Queries : query[q].scope # Nothing =>
    query[q].scope >= query[q].saw
=============================================================================
