--------------------------- MODULE InsightLineage ---------------------------
(***************************************************************************)
(* What synthesize makes of the facts it read: clusters of similar facts,  *)
(* the distinct events behind a cluster, the bounded sample of its facts    *)
(* that is summarised, and the lineage the insight is signed with, which    *)
(* validate_insights recomputes from the facts before and after signing.   *)
(***************************************************************************)
EXTENDS Clustering, FiniteSets

CONSTANTS
    Sources,      \* sets of lists of facts: what may be read
    MaxInputs,    \* MAX_INPUTS
    MinEvents,    \* --min-cluster
    EnrichedTop   \* --llm-top

(* A fact: its date and confidence, the events and the locations its       *)
(* evidence names, its text (equal texts are one value) and whether that   *)
(* is longer than an input may be, the facts its tokens overlap enough, and*)
(* whether it is current, valid and above the floor.                       *)
SourceFact == [id : Nat, date : Nat, confidence : Nat, events : SUBSET Nat,
               anchors : SUBSET Nat, text : Nat, long : BOOLEAN,
               alike : SUBSET Nat, active : BOOLEAN]

(* main raises "duplicate source fact IDs"; a fact names finitely many events. *)
Readable(facts) ==
    /\ facts \in Seq(SourceFact)
    /\ \A m, n \in DOMAIN facts : facts[m].id = facts[n].id => m = n
    /\ \A n \in DOMAIN facts : IsFiniteSet(facts[n].events)

ASSUME LineageAssumption ==
    /\ \A family \in Sources : \A facts \in family : Readable(facts)
    /\ {MaxInputs, MinEvents} \subseteq Nat \ {0}
    /\ EnrichedTop \in Nat

VARIABLES
    sources,   \* the facts, in the order of the store
    summaries  \* the insights made of them, in order

lineageVars == <<sources, summaries>>

-----------------------------------------------------------------------------
(* sorted: the elements of DOMAIN above, each after those above it. *)
Sorted(above) ==
    [n \in 1..Cardinality(DOMAIN above) |->
        CHOOSE x \in DOMAIN above : Cardinality(above[x]) = n - 1]

(* source_events.  A group holds a fact once, and no two groups have the   *)
(* same first fact and the same event id, so sets can be sorted.           *)

Identities(f) ==
    IF f.events # {} THEN {<<"event", {e}, 0>> : e \in f.events}
    ELSE IF f.anchors # {} THEN {<<"anchor", f.anchors, 0>>}
    ELSE {<<"text", {f.text}, f.date>>}

(* Lexicographic order on tuples of numbers, the greater first. *)
Above(a, b) ==
    \E n \in DOMAIN a : a[n] > b[n] /\ \A m \in 1..(n - 1) : a[m] = b[m]

EventId(identity) == IF identity[1] = "event" THEN CHOOSE e \in identity[2] : TRUE ELSE 0

Occurrence(facts, identity) ==
    LET supporters == {f \in facts : identity \in Identities(f)}
        Key(f) == <<f.date, f.confidence, f.id>>
    IN  [event |-> EventId(identity),
         facts |-> Sorted([f \in supporters |-> {g \in supporters : Above(Key(g), Key(f))}])]

SourceEvents(facts) ==
    LET events == {Occurrence(facts, identity) : identity \in UNION {Identities(f) : f \in facts}}
        Key(e) == <<e.facts[1].date, e.facts[1].id, e.event>>
    IN  Sorted([e \in events |-> {d \in events : Above(Key(d), Key(e))}])

EventLineage(events) ==
    [n \in DOMAIN events |->
        [event |-> events[n].event, representative |-> events[n].facts[1].id,
         sources |-> {f.id : f \in ToSet(events[n].facts)}]]

-----------------------------------------------------------------------------
(* representative_inputs. *)

(* Slip: a fact may represent several events. *)
PickedAgain(events) == [n \in DOMAIN events |-> events[n].facts[1]]

Represented(picked, supporters) ==
    LET fresh == {k \in DOMAIN supporters : supporters[k] \notin ToSet(picked)}
    IN  IF fresh = {} THEN picked
        ELSE Append(picked, supporters[CHOOSE k \in fresh : \A l \in fresh : k <= l])

(* For each event its first supporter that represents no other event yet.  *)
Pickings(events) ==
    LET after[n \in 0..Len(events)] ==
            IF n = 0 THEN <<>> ELSE Represented(after[n - 1], events[n].facts)
    IN  after

Picked(events) == Pickings(events)[Len(events)]

(* Before the round in which a fact is taken, those of its date before it  *)
(* were; a round takes one fact per date, the latest date first.           *)
Round(picked, k) == Cardinality({j \in DOMAIN picked : j < k /\ picked[j].date = picked[k].date})

Turns(picked) ==
    Sorted([k \in DOMAIN picked |->
               {j \in DOMAIN picked :
                   \/ Round(picked, j) < Round(picked, k)
                   \/ Round(picked, j) = Round(picked, k) /\ picked[j].date > picked[k].date}])

(* Slip: the first facts that were picked, whatever their dates. *)
FirstInputs(events) ==
    LET all == Picked(events)
    IN  SubSeq(all, 1, IF Len(all) < MaxInputs THEN Len(all) ELSE MaxInputs)

RepresentativeInputs(events) ==
    LET all == Picked(events)
    IN  [n \in 1..(IF Len(all) < MaxInputs THEN Len(all) ELSE MaxInputs) |-> all[Turns(all)[n]]]

-----------------------------------------------------------------------------
(* synthesize_cluster.  A summary covers the inputs whose whole text it     *)
(* quotes.  The heuristic one quotes 160 characters of its latest input,    *)
(* and another input is in it only if its text is the same; what the model  *)
(* writes quotes any of them or none.                                      *)
Summary(cluster, quotes, by) ==
    LET events == SourceEvents(ToSet(cluster))
        inputs == RepresentativeInputs(events)
    IN  [sources |-> {f.id : f \in ToSet(cluster)},
         inputs |-> [n \in DOMAIN inputs |-> inputs[n].id],
         receipts |-> [n \in DOMAIN inputs |->
                          [text |-> inputs[n].text, long |-> inputs[n].long,
                           date |-> inputs[n].date]],
         covered |-> {f.id : f \in {g \in ToSet(inputs) : ~g.long /\ g.text \in quotes}},
         quotes |-> quotes,
         recurrence |-> Len(events),
         events |-> EventLineage(events),
         latest |-> CHOOSE d \in {f.date : f \in ToSet(cluster)} :
                        \A f \in ToSet(cluster) : f.date <= d,
         by |-> by]

LatestText(cluster) ==
    LET inputs == ToSet(RepresentativeInputs(SourceEvents(ToSet(cluster))))
        latest == CHOOSE f \in inputs : \A g \in inputs \ {f} :
                      Above(<<f.date, f.id>>, <<g.date, g.id>>)
    IN  {latest.text}

(* The latest text, or the beginning of one that is longer. *)
Excerpts(cluster) == {LatestText(cluster), {}}

(* synthesize: the clusters with enough events, the strongest first; the   *)
(* top ones may be written by the model, which may fail.                   *)
Candidates(facts) ==
    LET active == {n \in DOMAIN facts : facts[n].active}
        order == Sorted([n \in active |-> {m \in active : m < n}])
        clusters == Clustered([n \in DOMAIN order |-> facts[order[n]]])
        Strength(n) == Len(SourceEvents(ToSet(clusters[n])))
        enough == {n \in DOMAIN clusters : Strength(n) >= MinEvents}
        rank == Sorted([n \in enough |->
                    {m \in enough : Strength(m) > Strength(n) \/ (Strength(m) = Strength(n) /\ m < n)}])
    IN  [n \in DOMAIN rank |-> clusters[rank[n]]]

-----------------------------------------------------------------------------
LineageInit ==
    /\ \E family \in Sources : sources \in family
    /\ summaries = <<>>

Summarize ==
    LET clusters == Candidates(sources)
        n == Len(summaries) + 1
    IN  /\ n <= Len(clusters)
        /\ \/ \E quotes \in Excerpts(clusters[n]) :
                 summaries' = Append(summaries, Summary(clusters[n], quotes, "heuristic"))
           \/ /\ n <= EnrichedTop
              /\ \E quotes \in SUBSET {f.text : f \in ToSet(clusters[n])} :
                    summaries' = Append(summaries, Summary(clusters[n], quotes, "llm"))
        /\ UNCHANGED sources

LineageNext == Summarize

LineageSpec == LineageInit /\ [][LineageNext]_lineageVars

-----------------------------------------------------------------------------
FactOf(id) == CHOOSE f \in ToSet(sources) : f.id = id

(* validate_insights, on one insight and the facts it was made from. *)
Validates(insight) ==
    LET ids == insight.inputs
        events == SourceEvents({FactOf(i) : i \in insight.sources})
    IN  /\ insight.sources # {} /\ insight.sources \subseteq {f.id : f \in ToSet(sources)}
        /\ Len(ids) \in 1..MaxInputs /\ IsInjective(ids)
        /\ ToSet(ids) \subseteq insight.sources
        /\ insight.covered \subseteq ToSet(ids)
        /\ \A n \in DOMAIN ids :
              LET f == FactOf(ids[n])
              IN  /\ insight.receipts[n] = [text |-> f.text, long |-> f.long, date |-> f.date]
                  /\ f.id \in insight.covered => ~f.long /\ f.text \in insight.quotes
        /\ insight.recurrence = Len(events)
        /\ insight.events = EventLineage(events)
        /\ \A i \in insight.sources : FactOf(i).date <= insight.latest
        /\ \E i \in insight.sources : FactOf(i).date = insight.latest

(* What synthesize makes passes the validation it must pass to be published, *)
(* whatever the overlap of its citations and the order of its sources.  And *)
(* no two insights share a source or claim one that is not current.        *)
OwnLineageValid ==
    /\ \A n \in DOMAIN summaries : Validates(summaries[n])
    /\ \A m, n \in DOMAIN summaries :
          m # n => summaries[m].sources \cap summaries[n].sources = {}
    /\ \A n \in DOMAIN summaries : \A i \in summaries[n].sources : FactOf(i).active

(* "Distinct recent facts, one per date per round": no date is sampled     *)
(* twice more than another that has facts left to give, recurrence counts   *)
(* distinct occurrences only, and the sample stops early only when nothing  *)
(* is left.                                                                *)
SampleIsFair ==
    \A n \in DOMAIN summaries :
        LET cluster == {FactOf(i) : i \in summaries[n].sources}
            inputs == {FactOf(i) : i \in ToSet(summaries[n].inputs)}
            pool == ToSet(Picked(SourceEvents(cluster)))
            On(S, d) == Cardinality({f \in S : f.date = d})
        IN  /\ Cardinality(inputs) = IF Cardinality(pool) < MaxInputs
                                     THEN Cardinality(pool) ELSE MaxInputs
            /\ \A f, g \in pool :
                  On(inputs, f.date) < On(pool, f.date) =>
                      On(inputs, g.date) <= On(inputs, f.date)
                                            + IF g.date > f.date THEN 1 ELSE 0
            /\ summaries[n].recurrence =
                   Cardinality(UNION {f.events : f \in cluster})
                   + Cardinality({f.anchors : f \in {g \in cluster : g.events = {} /\ g.anchors # {}}})
                   + Cardinality({<<f.text, f.date>> :
                                     f \in {g \in cluster : g.events = {} /\ g.anchors = {}}})

=============================================================================
