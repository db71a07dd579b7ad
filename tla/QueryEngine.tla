----------------------------- MODULE QueryEngine -----------------------------
(***************************************************************************)
(* The query engine of the client (allio-client/src/query.ts): selectors   *)
(* evaluated over the mirror's cached elements, whatever state the events  *)
(* have left them in: children that are not cached, elements listed by two *)
(* parents, lists that form a cycle while a subtree moves.                 *)
(*                                                                         *)
(* A mirror maps the cached ids to their role and list of children.        *)
(* Splitting the query text and converting values are left out: a query is *)
(* given as its token sequences and the set of roles to extract.           *)
(***************************************************************************)
EXTENDS Naturals, Sequences, FiniteSets, SequencesExt

CONSTANTS
  None,     \* undefined
  Id,       \* element ids
  Role,     \* roles
  Tokens    \* token sequences of the selectors that are looked at

VARIABLE mirror   \* allio.elements

Cached == [role : Role, children : {s \in SeqOf(Id, 2) : Len(s) = Cardinality(Range(s))}]

First(s) == IF s = <<>> THEN None ELSE s[1]
OfRole(m, s, role) == SelectSeq(s, LAMBDA e : m[e].role = role)

----------------------------------------------------------------------------
\* Mutant of ParseSelector: a ">" is remembered until the end.
ParseSelectorSticky(tokens) ==
  FoldLeft(LAMBDA steps, i : IF tokens[i] = ">" THEN steps
             ELSE Append(steps, [role |-> tokens[i],
                                 child |-> \E j \in 1..i : tokens[j] = ">" /\ steps # <<>>]),
           <<>>, [i \in DOMAIN tokens |-> i])

\* A ">" makes the next role a child step; before the first role it means nothing.
ParseSelector(tokens) ==
  FoldLeft(LAMBDA steps, i : IF tokens[i] = ">" THEN steps
             ELSE Append(steps, [role |-> tokens[i],
                                 child |-> steps # <<>> /\ tokens[i - 1] = ">"]),
           <<>>, [i \in DOMAIN tokens |-> i])

\* The loop of getDescendants: ids found before are passed over, ids without element end there.
BreadthFirst(m, e) ==
  LET search[s \in [queue : Seq(Id), found : Seq(Id)]] ==
        IF s.queue = <<>> THEN s.found
        ELSE LET id == Head(s.queue)
                 found == Append(s.found, id)
             IN  IF id \in Range(s.found) \/ id \notin DOMAIN m
                 THEN search[[s EXCEPT !.queue = Tail(@)]]
                 ELSE search[[queue |-> Tail(s.queue)
                                        \o SelectSeq(m[id].children, LAMBDA c : c \notin Range(found)),
                              found |-> found]]
  IN  search[[queue |-> <<e>>, found |-> <<>>]]

\* Mutant of Descendants: no visited set, only children and grandchildren in turn.
DescendantsTwice(m, e) ==
  LET below(x) == SelectSeq(m[x].children, LAMBDA c : c \in DOMAIN m)
  IN  below(e) \o FlattenSeq([i \in DOMAIN below(e) |-> below(below(e)[i])])

Descendants(m, e) == Tail(BreadthFirst(m, e))

DirectChildren(m, e) == SelectSeq(m[e].children, LAMBDA c : c \in DOMAIN m)

Candidates(m, e, step) ==
  OfRole(m, IF step.child THEN DirectChildren(m, e) ELSE Descendants(m, e), step.role)

\* The first step takes the root if it has the role, and only else what is below it.
Starts(m, root, step) ==
  IF m[root].role = step.role THEN <<root>> ELSE OfRole(m, Descendants(m, root), step.role)

\* Each step goes on from the first candidate of the step before.
FindFirst(m, root, steps) ==
  IF steps = <<>> \/ root \notin DOMAIN m THEN None
  ELSE FoldLeft(LAMBDA e, step : IF e = None THEN None ELSE First(Candidates(m, e, step)),
                First(Starts(m, root, steps[1])), Tail(steps))

\* Each step goes on from all candidates of the step before, so that one element may come twice.
FindMatches(m, root, steps) ==
  IF steps = <<>> \/ root \notin DOMAIN m THEN <<>>
  ELSE FoldLeft(LAMBDA found, step : FlattenSeq([i \in DOMAIN found |-> Candidates(m, found[i], step)]),
                Starts(m, root, steps[1]), Tail(steps))

\* Mutant of Extracted: a missing field is left out of the result.
ExtractedPartly(m, e, roles) ==
  <<[element |-> e, fields |-> [r \in {x \in roles : OfRole(m, Descendants(m, e), x) # <<>>} |->
                                   First(OfRole(m, Descendants(m, e), r))]]>>

\* The fields of a match, each from the first descendant of its role: all of them or no result.
Extracted(m, e, roles) ==
  LET field == [r \in roles |-> First(OfRole(m, Descendants(m, e), r))] IN
  IF \E r \in roles : field[r] = None THEN <<>> ELSE <<[element |-> e, fields |-> field]>>

\* queryString; find is None or the tokens in brackets.
QueryString(m, root, find, match, roles) ==
  LET target == IF find = None THEN root ELSE FindFirst(m, root, ParseSelector(find))
      found  == IF target = None THEN <<>> ELSE FindMatches(m, target, ParseSelector(match))
  IN  FlattenSeq([i \in DOMAIN found |-> Extracted(m, found[i], roles)])

----------------------------------------------------------------------------
\* The mirror follows element:changed and element:removed in whatever order they come.
Init == mirror = <<>>

ElementChanged(e, element) ==
  mirror' = [x \in DOMAIN mirror \cup {e} |-> IF x = e THEN element ELSE mirror[x]]

ElementRemoved(e) ==
  /\ e \in DOMAIN mirror
  /\ mirror' = [x \in DOMAIN mirror \ {e} |-> mirror[x]]

Next == \E e \in Id : ElementRemoved(e) \/ \E element \in Cached : ElementChanged(e, element)

Spec == Init /\ [][Next]_mirror

----------------------------------------------------------------------------
\* What a selector says: chains of cached elements, each below (or a child of) the one before.
Below[n \in 0..Cardinality(Id)] ==
  [e \in DOMAIN mirror |->
     IF n = 0 THEN {e}
     ELSE LET near == Below[n - 1][e] IN
          near \cup {c \in DOMAIN mirror : \E x \in near : c \in Range(mirror[x].children)}]

Reach(e) == Below[Cardinality(Id)][e]

\* What is at the end of a chain from the root, read off the tokens.
Wanted(root, tokens) ==
  LET reach == Below[Cardinality(Id)]
      chain[n \in DOMAIN tokens, x \in reach[root]] ==
        /\ mirror[x].role = tokens[n]
        /\ \/ n = 1 \/ (n = 2 /\ tokens[1] = ">")
           \/ \E y \in reach[root] :
                IF tokens[n - 1] = ">" THEN x \in Range(mirror[y].children) /\ chain[n - 2, y]
                ELSE x # y /\ x \in reach[y] /\ chain[n - 1, y]
  IN  {e \in reach[root] : chain[Len(tokens), e]}

\* Whatever the mirror holds, the search below an element ends, comes to every cached element
\* that can be reached once, and to nearer ones first.
DescendantsOnce ==
  \A e \in DOMAIN mirror :
    LET found == Descendants(mirror, e) IN
    /\ Range(found) = Reach(e) \ {e} /\ Len(found) = Cardinality(Range(found))
    /\ \A i, j \in DOMAIN found : \A n \in DOMAIN Below :
         i < j /\ found[j] \in Below[n][e] => found[i] \in Below[n][e]

\* Every match is what the selector says, and unless the root itself has the first role (then
\* only the root is a start) nothing that the selector says is missed.
MatchesMeanTheSelector ==
  \A root \in DOMAIN mirror, tokens \in Tokens :
    LET found == Range(FindMatches(mirror, root, ParseSelector(tokens))) IN
    /\ found \subseteq Wanted(root, tokens)
    /\ mirror[root].role \notin {tokens[1], tokens[Len(tokens)]} => found = Wanted(root, tokens)

\* What the (find) part finds is what its selector says; a single role is found if it is there;
\* and a match is reported only with all its fields, which are below the match.
FindAndExtract ==
  \A root \in DOMAIN mirror, tokens \in Tokens :
    /\ FindFirst(mirror, root, ParseSelector(tokens)) \in Wanted(root, tokens) \cup {None}
    /\ \A r \in Role : FindFirst(mirror, root, ParseSelector(<<r>>)) = None <=> Wanted(root, <<r>>) = {}
    /\ \A result \in Range(QueryString(mirror, root, tokens, tokens, Role)) :
         /\ DOMAIN result.fields = Role
         /\ \A r \in Role : /\ result.fields[r] \in Reach(result.element)
                           /\ mirror[result.fields[r]].role = r

\* query.ts:242, "Find all elements matching a selector starting from a root": not when the
\* root has the first step's role and other starts are below it.
FindsAllMatches ==
  \A root \in DOMAIN mirror, tokens \in Tokens :
    Wanted(root, tokens) \subseteq Range(FindMatches(mirror, root, ParseSelector(tokens)))
============================================================================
