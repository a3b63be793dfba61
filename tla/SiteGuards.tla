---------------------------- MODULE SiteGuards ----------------------------
(***************************************************************************)
(* The sites of a call graph: the conditions that guard a site, read from  *)
(* the syntax of hash-verified sources (query/graph_guards.go), guards     *)
(* filled in afterwards (graph/guards.go), members folded into their       *)
(* owners (graph/fold.go) and relationships served as a source             *)
(* (graph/relationships.go).                                               *)
(*                                                                         *)
(* A block is a sequence of statements.  A site is a call, a read or a     *)
(* write; its text is left out.  A condition is a formula over atoms and   *)
(* over comparisons of a switch's tag.                                     *)
(***************************************************************************)
EXTENDS Integers, Sequences, FiniteSets, SequencesExt

CONSTANTS SiteQuestions,   \* what is asked: bodies, steps, files, relationships
          Valuations       \* what may hold while a body runs

VARIABLES siteQuestion,    \* the question at hand
          siteReply        \* what was answered, Pending before

siteVars == <<siteQuestion, siteReply>>

Pending == [kind |-> "pending"]

----------------------------------------------------------------------------
(* Conditions. *)

Atom(name)       == [op |-> "atom", name |-> name]
Equal(tag, x)    == [op |-> "equal", tag |-> tag, value |-> x]
Negation(c)      == [op |-> "not", of |-> c]
Either(c, d)     == [op |-> "or", left |-> c, right |-> d]
NoCondition      == [op |-> "none"]

RECURSIVE Holds(_, _)
\* v gives the atoms that are true (a communication is when it is ready, "default"
\* when none is) and the value of each tag.
Holds(c, v) == CASE c.op = "atom"  -> c.name \in v.true
                 [] c.op = "equal" -> v.tags[c.tag] = c.value
                 [] c.op = "not"   -> ~Holds(c.of, v)
                 [] c.op = "or"    -> Holds(c.left, v) \/ Holds(c.right, v)

----------------------------------------------------------------------------
(* The guards of a site. *)

\* What a clause's value must do: equal the tag, or hold where there is none.
MatchOf(switch, value) == IF switch.tag = "none" THEN value ELSE Equal(switch.tag, value)

MatchesAny(switch, values) ==
  IF values = << >> THEN << >>
  ELSE <<FoldLeft(LAMBDA c, x : Either(c, MatchOf(switch, x)), MatchOf(switch, Head(values)), Tail(values))>>

IsDefault(clause) == clause.values = << >>

RECURSIVE ClauseCondition(_, _)

\* Mutant: neither the default clause nor falling through from the clause before is considered.
ClauseConditionOfMatch(switch, i) == MatchesAny(switch, switch.clauses[i].values)

\* What must hold to run clause i: << >> when it always runs.
ClauseCondition(switch, i) ==
  LET clause    == switch.clauses[i]
      others    == FlattenSeq([j \in DOMAIN switch.clauses |-> switch.clauses[j].values])
      matched   == MatchesAny(switch, IF IsDefault(clause) THEN others ELSE clause.values)
      condition == IF IsDefault(clause) /\ matched # << >> THEN <<Negation(matched[1])>> ELSE matched
  IN  IF condition = << >> \/ i = 1 \/ ~switch.clauses[i - 1].falls THEN condition
      ELSE LET previous == ClauseCondition(switch, i - 1)
           IN  IF previous = << >> THEN << >> ELSE <<Either(previous[1], condition[1])>>

\* guardEntering: the blocks of a statement, and what entering each requires.
GuardEntering(s) ==
  CASE s.kind = "if" ->
         {<< << >>, s.before>>, << <<s.cond>>, s.body>>, << <<Negation(s.cond)>>, s.else>>}
    [] s.kind = "for" ->
         LET held == IF s.cond = NoCondition THEN << >> ELSE <<s.cond>>
         IN  {<< << >>, s.before>>, <<held, s.body>>, <<held, s.post>>}
    [] s.kind = "switch" ->
         {<< << >>, s.before>>} \cup {<<ClauseCondition(s, i), s.clauses[i].body>> : i \in DOMAIN s.clauses}
    [] s.kind = "select" ->
         {<< << >>, s.clauses[i].before>> : i \in DOMAIN s.clauses}
         \cup {<< <<Atom(s.clauses[i].comm)>>, s.clauses[i].body>> : i \in DOMAIN s.clauses}
    [] OTHER -> {<< << >>, s.body>>}

RECURSIVE SitesIn(_, _)
\* siteAt, accessAt: every site of a block with its guards, outermost first.
SitesIn(block, guards) ==
  UNION {IF block[i].kind = "site" THEN {<<block[i].id, guards>>}
         ELSE UNION {SitesIn(part[2], guards \o part[1]) : part \in GuardEntering(block[i])}
         : i \in DOMAIN block}

\* How Go runs a block: the sites it reaches when v holds throughout.
RECURSIVE ReachedBy(_, _)
ReachedBy(block, v) ==
  LET chosen(s) ==
        LET matching == {i \in DOMAIN s.clauses : \E n \in DOMAIN s.clauses[i].values :
                           Holds(MatchOf(s, s.clauses[i].values[n]), v)}
            defaults == {i \in DOMAIN s.clauses : IsDefault(s.clauses[i])}
        IN  IF matching # {} THEN {Min(matching)} ELSE defaults
      falling(s, i) == {j \in DOMAIN s.clauses : i <= j /\ \A n \in i .. j - 1 : s.clauses[n].falls}
      ready(s) == {i \in DOMAIN s.clauses : s.clauses[i].comm \in v.true}
      reached(s) ==
        CASE s.kind = "site" -> {s.id}
          [] s.kind = "if" -> ReachedBy(s.before, v)
                              \cup IF Holds(s.cond, v) THEN ReachedBy(s.body, v) ELSE ReachedBy(s.else, v)
          [] s.kind = "for" -> ReachedBy(s.before, v)
                               \cup IF s.cond = NoCondition \/ Holds(s.cond, v)
                                    THEN ReachedBy(s.body, v) \cup ReachedBy(s.post, v) ELSE {}
          [] s.kind = "switch" -> ReachedBy(s.before, v)
                                  \cup UNION {UNION {ReachedBy(s.clauses[j].body, v) : j \in falling(s, i)} : i \in chosen(s)}
          [] s.kind = "select" -> UNION {ReachedBy(s.clauses[i].before, v) : i \in DOMAIN s.clauses}
                                  \cup UNION {ReachedBy(s.clauses[i].body, v) : i \in ready(s)}
          [] OTHER -> ReachedBy(s.body, v)
  IN  UNION {reached(block[i]) : i \in DOMAIN block}

----------------------------------------------------------------------------
(* The reader: each file read and parsed once. *)

NoFile == "none"

\* keep: a file that cannot be read is reported once for its path.
Keep(reader, key, cause) ==
  [files |-> [k \in DOMAIN reader.files \cup {key} |->
                IF k # key THEN reader.files[k] ELSE IF cause = "parses" THEN "parsed" ELSE NoFile],
   unreadable |-> IF cause \in {"parses", "external"} THEN reader.unreadable ELSE reader.unreadable \cup {key.path}]

\* load: what no document tells is kept at once, the rest is read by snapshot.
Load(reader, causes, keys) ==
  LET unread   == SelectSeq(keys, LAMBDA k : k \notin DOMAIN reader.files)
      located  == FoldLeft(LAMBDA r, k : IF k \in DOMAIN r.files THEN r
                                         ELSE IF causes[k] \in {"missing", "external"} THEN Keep(r, k, causes[k])
                                         ELSE [r EXCEPT !.files = [f \in DOMAIN r.files \cup {k} |->
                                                                     IF f = k THEN NoFile ELSE r.files[f]]],
                           reader, unread)
      batched  == {k \in ToSet(unread) : causes[k] \notin {"missing", "external"}}
  IN  FoldSet(LAMBDA k, r : Keep(r, k, causes[k]), located, batched)

NewGuardReader == [files |-> [k \in {} |-> NoFile], unreadable |-> {}]

\* FillGuards: the edges' sites as one sequence.
FillGuards(sites, guardsOf) ==
  LET fill(g, s) ==
        IF g.failed \/ s.path = "none" \/ s.line = 0 THEN [g EXCEPT !.sites = Append(@, s)]
        ELSE CASE guardsOf[s.path] = "fails" -> [g EXCEPT !.failed = TRUE]
               [] guardsOf[s.path] = "unreadable" ->
                    [g EXCEPT !.sites = Append(@, s),
                              !.omitted = IF \E i \in DOMAIN @ : @[i] = s.path THEN @ ELSE Append(@, s.path)]
               [] OTHER -> [g EXCEPT !.sites = Append(@, [s EXCEPT !.guards = guardsOf[s.path]])]
  IN  FoldLeft(fill, [sites |-> << >>, omitted |-> << >>, failed |-> FALSE], sites)

----------------------------------------------------------------------------
(* Members folded into their owners. *)

CoveredSites(steps, members) ==
  UNION {{<<members[steps[i].node].owner, steps[i].type, s.line>> : s \in ToSet(steps[i].sites)}
         : i \in {i \in DOMAIN steps : steps[i].node \in DOMAIN members /\ members[steps[i].node].covers}}

Uncovered(step, covered) ==
  SelectSeq(step.sites, LAMBDA s : <<step.node, step.type, s.line>> \notin covered)

Drawn(step, covered) == Uncovered(step, covered) # << >> \/ step.sites = << >>

Surviving(steps, members) ==
  {i \in DOMAIN steps : Drawn(steps[i], CoveredSites(steps, members))}

\* One more step under its node and type; the edge has one list of members.
AddStep(held, i, step, member) ==
  LET at    == SelectInSeq(held.edges, LAMBDA e : e.node = step.node /\ e.type = step.type)
      fresh == [node |-> step.node, type |-> step.type, sites |-> << >>, kinds |-> {}, from |-> << >>,
                members |-> {}, property |-> "none"]
      edge  == IF at = 0 THEN fresh ELSE held.edges[at]
      sited == FoldLeft(LAMBDA ss, s : IF s \in ToSet(ss) THEN ss ELSE Append(ss, s), edge.sites, step.sites)
      added == [edge EXCEPT !.sites = sited, !.from = Append(@, i), !.kinds = @ \cup step.kinds,
                            !.members = IF member.name = "none" THEN @ ELSE @ \cup {member.name},
                            !.property = IF member.name = "none" THEN @ ELSE member.property]
  IN  [edges |-> IF at = 0 THEN Append(held.edges, added) ELSE [held.edges EXCEPT ![at] = added],
       failed |-> \/ held.failed
                  \/ member.name # "none" /\ edge.property \notin {"none", member.property}]

\* folded: the sites in the order of their lines.
Ordered(edge) == [edge EXCEPT !.sites = SortSeq(@, LAMBDA s, t : s.line < t.line)]

NoMember == [name |-> "none"]

FoldMembers(steps, members, fold) ==
  LET covered == IF fold THEN {} ELSE CoveredSites(steps, members)
      place(held, i) ==
        LET step == steps[i]
        IN  IF held.failed THEN held
            ELSE IF fold /\ step.node \in DOMAIN members
            THEN AddStep(held, i, [step EXCEPT !.node = members[step.node].owner], members[step.node])
            ELSE IF fold THEN AddStep(held, i, step, NoMember)
            ELSE IF ~Drawn(step, covered) THEN held
            ELSE AddStep(held, i, [step EXCEPT !.sites = Uncovered(step, covered)], NoMember)
      held == FoldLeft(place, [edges |-> << >>, failed |-> FALSE], [i \in DOMAIN steps |-> i])
  IN  [edges |-> [i \in DOMAIN held.edges |-> Ordered(held.edges[i])], failed |-> held.failed]

----------------------------------------------------------------------------
(* Relationships. *)

DrawnRelationships == {"call", "dispatch", "read", "write"}

\* The steps out of and into each node; an end is an identity key, or "nil".
FromRelationships(declared, relationships) ==
  LET served  == SelectSeq(relationships, LAMBDA r : r.type \in DrawnRelationships)
      broken  == "nil" \in declared \/ \E i \in DOMAIN served : "nil" \in {served[i].from, served[i].to}
      known   == declared \cup UNION {{served[i].from, served[i].to} : i \in DOMAIN served}
      along(id, near, far) ==
        LET steps == SelectSeq(served, LAMBDA r : r[near] = id)
        IN  [i \in DOMAIN steps |-> [node |-> steps[i][far], type |-> steps[i].type, site |-> steps[i].site]]
  IN  IF broken THEN [failed |-> TRUE]
      ELSE [failed |-> FALSE, out |-> [id \in known |-> along(id, "from", "to")],
                              in  |-> [id \in known |-> along(id, "to", "from")]]

----------------------------------------------------------------------------
SiteInit == siteQuestion \in SiteQuestions /\ siteReply = Pending

AnswerSites ==
  /\ siteReply = Pending
  /\ siteReply' =
       LET q == siteQuestion
       IN  CASE q.kind = "body"  -> [kind |-> "sites", sites |-> SitesIn(q.block, << >>)]
             [] q.kind = "steps" -> [kind |-> "folded", result |-> FoldMembers(q.steps, q.members, q.fold)]
             [] q.kind = "files" -> [kind |-> "reader", reader |-> FoldLeft(LAMBDA r, ks : Load(r, q.causes, ks),
                                                                           NewGuardReader, q.batches)]
             [] q.kind = "graph" -> [kind |-> "filled", result |-> FillGuards(q.sites, q.guards)]
             [] q.kind = "relationships" -> [kind |-> "source", source |-> FromRelationships(q.declared, q.relationships)]
  /\ UNCHANGED siteQuestion

SiteSpec == SiteInit /\ [][AnswerSites]_siteVars

----------------------------------------------------------------------------
(* What the sites promise. *)

\* Whatever conditions hold, a site that a run of its body reaches has only guards that hold
\* then, through else branches, defaults and clauses that fall through; and a clause said to
\* have no condition runs in every run that reaches its switch (graph_guards.go, siteAt).
GuardsHoldWhereReached ==
  siteReply # Pending /\ siteQuestion.kind = "body" =>
    \A v \in Valuations :
      LET reached == ReachedBy(siteQuestion.block, v)
      IN  /\ \A s \in siteReply.sites : s[1] \in reached => \A i \in DOMAIN s[2] : Holds(s[2][i], v)
          /\ \A s \in siteReply.sites : s[2] = << >> => s[1] \in reached

\* Folding loses no site and adds none: a site is drawn at its node or at its member's owner;
\* drawn apart, only sites a covering member stands for on that line are left out, and the
\* steps drawn are exactly the ones Surviving names (fold.go).
FoldingKeepsSites ==
  siteReply # Pending /\ siteQuestion.kind = "steps" =>
    LET q == siteQuestion
        placed(node) == IF q.fold /\ node \in DOMAIN q.members THEN q.members[node].owner ELSE node
        given == UNION {{<<placed(q.steps[i].node), q.steps[i].type, s>> : s \in ToSet(q.steps[i].sites)} : i \in DOMAIN q.steps}
        edges == siteReply.result.edges
        drawn == UNION {{<<edges[e].node, edges[e].type, s>> : s \in ToSet(edges[e].sites)} : e \in DOMAIN edges}
        stoodFor(g) == ~q.fold /\ \E d \in given : /\ d[1] \in DOMAIN q.members
                                                   /\ q.members[d[1]].covers
                                                   /\ q.members[d[1]].owner = g[1]
                                                   /\ d[2] = g[2] /\ d[3].line = g[3].line
    IN  /\ drawn \subseteq given
        /\ ~siteReply.result.failed =>
             /\ \A g \in given : (g \in drawn) = ~stoodFor(g)
             /\ \A e \in DOMAIN edges : \A i, j \in DOMAIN edges[e].sites :
                  i < j => /\ edges[e].sites[i] # edges[e].sites[j]
                           /\ edges[e].sites[i].line <= edges[e].sites[j].line
             /\ ~q.fold => Surviving(q.steps, q.members) = UNION {ToSet(edges[e].from) : e \in DOMAIN edges}

\* However its reads are batched, a reader parses exactly the readable files and names exactly
\* the paths whose source is gone or broken, never one only an external producer published.
ReadersAgree ==
  siteReply # Pending /\ siteQuestion.kind = "files" =>
    LET q     == siteQuestion
        asked == UNION {ToSet(q.batches[b]) : b \in DOMAIN q.batches}
    IN  /\ DOMAIN siteReply.reader.files = asked
        /\ \A k \in asked : (siteReply.reader.files[k] = "parsed") = (q.causes[k] = "parses")
        /\ siteReply.reader.unreadable = {k.path : k \in {k \in asked : q.causes[k] \notin {"parses", "external"}}}

\* Filling guards touches only what was read: a site that cannot be read keeps the guards it
\* had and its path is named once.
FilledGuardsAreRead ==
  siteReply # Pending /\ siteQuestion.kind = "graph" =>
    LET q == siteQuestion
        g == siteReply.result
        positioned(s) == s.path # "none" /\ s.line # 0
        reads(s) == positioned(s) /\ q.guards[s.path] \notin {"fails", "unreadable"}
    IN  /\ g.failed = \E i \in DOMAIN q.sites : positioned(q.sites[i]) /\ q.guards[q.sites[i].path] = "fails"
        /\ ~g.failed =>
             /\ \A i \in DOMAIN q.sites :
                  g.sites[i] = IF reads(q.sites[i]) THEN [q.sites[i] EXCEPT !.guards = q.guards[q.sites[i].path]] ELSE q.sites[i]
             /\ IsInjective(g.omitted)
             /\ ToSet(g.omitted) = {s.path : s \in {s \in ToSet(q.sites) : positioned(s) /\ q.guards[s.path] = "unreadable"}}

\* A step out of one node is a step into the other, site for site, and a missing end is refused
\* only where an edge would be drawn.
SourcesMirror ==
  siteReply # Pending /\ siteQuestion.kind = "relationships" =>
    LET s == siteReply.source
        q == siteQuestion
    IN  IF s.failed THEN \/ "nil" \in q.declared
                         \/ \E r \in ToSet(q.relationships) : r.type # "import" /\ "nil" \in {r.from, r.to}
        ELSE \A a, b \in DOMAIN s.out :
               LET to(id, steps, other) == {[type |-> x.type, site |-> x.site] : x \in {x \in ToSet(steps[id]) : x.node = other}}
               IN  to(a, s.out, b) = to(b, s.in, a)

\* The five together.
SitesAreGuarded ==
  GuardsHoldWhereReached /\ FoldingKeepsSites /\ ReadersAgree /\ FilledGuardsAreRead /\ SourcesMirror
=============================================================================
