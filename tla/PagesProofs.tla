----------------------------- MODULE PagesProofs -----------------------------
(***************************************************************************)
(* Proofs about Pages, for any tabs, analyses, outcomes and earlier runs:  *)
(* a tab that was told of a run is never shown a page without it, a score  *)
(* is not taken for more than it is, and what a page says of the scores    *)
(* over time is borne out by the scores it is put together from.           *)
(***************************************************************************)
EXTENDS Pages, TrendProofs

(* Tabs are told only of stored runs, owe what they were told when the load *)
(* began, and have it in every read that is in.                             *)
ToldInv ==
    /\ \A a \in Analyses : apc[a] = "stored" => a \in Stored
    /\ told \in [Tabs -> SUBSET Stored]
    /\ DOMAIN apc = Analyses
    /\ DOMAIN load = Tabs
    /\ \A t \in Tabs :
         /\ load[t].owed \subseteq told[t]
         /\ \A r \in DOMAIN load[t].got : load[t].owed \subseteq load[t].got[r]

(* Nothing has been shown or told.                                          *)
LEMMA ToldInit == PagesInit => ToldInv
BY DEF PagesInit, ToldInv, NoLoad, Unread

(* A load begins with what is owed and without reads.                       *)
LEMMA BeginsOwing ==
    ASSUME ToldInv, NEW t \in Tabs, NEW kind, Loading(t, kind, told'[t]),
           UNCHANGED <<apc, runs>>, told' \in [Tabs -> SUBSET Stored],
           \A u \in Tabs : told[u] \subseteq told'[u]
    PROVE  ToldInv'
<1>1. /\ load' = [load EXCEPT ![t] = [NoLoad EXCEPT !.kind = kind,
                                                     !.owed = told'[t]]]
      /\ DOMAIN load = Tabs
  BY DEF Loading, ToldInv
<1>2. load'[t].owed = told'[t] /\ DOMAIN load'[t].got = {}
  BY <1>1 DEF NoLoad, Unread
<1>3. \A u \in Tabs \ {t} : load'[u] = load[u]
  BY <1>1
<1>4. DOMAIN load' = Tabs /\ Stored' = Stored
  BY <1>1 DEF Stored
<1> QED
  BY <1>2, <1>3, <1>4 DEF ToldInv

(* Every read, refresh and stored run preserves ToldInv.                    *)
LEMMA ToldStep == ToldInv /\ [PagesNext]_pagesVars => ToldInv'
<1> SUFFICES ASSUME ToldInv, [PagesNext]_pagesVars PROVE ToldInv'
  OBVIOUS
<1>1. ASSUME NEW t \in Tabs, NEW kind, Open(t, kind) PROVE ToldInv'
  BY <1>1, BeginsOwing DEF Open, backendVars, ToldInv
<1>2. ASSUME NEW t \in Tabs, NEW a \in Analyses, TellRun(t, a) PROVE ToldInv'
  <2>1. /\ told' = [told EXCEPT ![t] = @ \cup {a}]
        /\ told' \in [Tabs -> SUBSET Stored]
        /\ \A u \in Tabs : told[u] \subseteq told'[u]
        /\ UNCHANGED <<apc, runs>>
    BY <1>2 DEF TellRun, backendVars, ToldInv
  <2>2. CASE load[t].kind = "none"
    <3>1. told'[t] = told[t] \cup {a}
      BY <2>1 DEF ToldInv
    <3>2. Loading(t, page[t], told'[t])
      BY <1>2, <2>2, <3>1 DEF TellRun
    <3> QED
      BY <2>1, <3>2, BeginsOwing
  <2>3. CASE load[t].kind # "none"
    <3>1. load' = load /\ Stored' = Stored
      BY <1>2, <2>1, <2>3 DEF TellRun, Stored
    <3> QED
      BY <2>1, <3>1 DEF ToldInv
  <2> QED
    BY <2>2, <2>3
<1>3. ASSUME NEW t \in Tabs, NEW r, Read(t, r) PROVE ToldInv'
  <2>1. /\ UNCHANGED <<apc, runs, told>>
        /\ Stored' = Stored
        /\ DOMAIN load' = Tabs
        /\ \A u \in Tabs \ {t} : load'[u] = load[u]
    BY <1>3 DEF Read, backendVars, ToldInv, Stored
  <2>2. /\ load'[t].owed = load[t].owed
        /\ load'[t].got = [x \in DOMAIN load[t].got \cup {r} |->
                             IF x = r THEN Stored ELSE load[t].got[x]]
    BY <1>3 DEF Read, Seen, ToldInv
  <2>3. load[t].owed \subseteq Stored
    BY DEF ToldInv
  <2> QED
    BY <2>1, <2>2, <2>3 DEF ToldInv
<1>4. ASSUME NEW t \in Tabs, Show(t) PROVE ToldInv'
  <2>1. CASE again[t]
    BY <1>4, <2>1, BeginsOwing DEF Show, backendVars, ToldInv
  <2>2. CASE ~again[t]
    BY <1>4, <2>2 DEF Show, backendVars, ToldInv, Stored, NoLoad, Unread
  <2> QED
    BY <2>1, <2>2
<1>5. ASSUME NEW a \in Analyses, StoreRun(a) PROVE ToldInv'
  <2> DEFINE d == draft[a]
             run == [id |-> a, status |-> d.outcome.status,
                     score |-> d.outcome.score, found |-> d.outcome.found,
                     end |-> d.end, created |-> d.created,
                     measured |-> d.measured]
  <2>1. runs' = runs \cup {run} /\ run.id = a
    BY <1>5 DEF StoreRun
  <2> HIDE DEF run
  <2>2. Stored' = Stored \cup {a}
    BY <2>1 DEF Stored
  <2> QED
    BY <1>5, <2>2 DEF StoreRun, Goto, pageVars, ToldInv
<1>6. ASSUME NEW a \in Analyses, ReadInput(a) \/ CreateRun(a) \/ CreateScore(a)
      PROVE  ToldInv'
  <2>1. UNCHANGED <<runs, pageVars>> /\ Stored' = Stored
    BY <1>6 DEF ReadInput, CreateRun, CreateScore, Stored
  <2>2. \A b \in Analyses : apc'[b] = "stored" => apc[b] = "stored"
    BY <1>6 DEF ReadInput, CreateRun, CreateScore, Goto, ToldInv
  <2>3. DOMAIN apc' = Analyses
    BY <1>6 DEF ReadInput, CreateRun, CreateScore, Goto, ToldInv
  <2> QED
    BY <2>1, <2>2, <2>3 DEF pageVars, ToldInv
<1>7. CASE Ingest \/ UNCHANGED pagesVars
  BY <1>7 DEF Ingest, pagesVars, backendVars, pageVars, ToldInv, Stored
<1> QED
  BY <1>1, <1>2, <1>3, <1>4, <1>5, <1>6, <1>7 DEF PagesNext

(* A page whose load began after a tab was told of a run has that run in    *)
(* every read it is put together from, whatever landed between them.        *)
THEOREM TabsSeeTheirRuns == PagesSpec => []OwnRunShown
<1>1. ToldInv => OwnRunShown
  BY DEF ToldInv, OwnRunShown
<1> QED
  BY <1>1, ToldInit, ToldStep, PTL DEF PagesSpec

-----------------------------------------------------------------------------
(* Stamps.  A clock reading is taken once, so that neither two stored runs  *)
(* nor a stored run and a draft share one.                                  *)
Started(a) == apc[a] \in {"created", "measured"}
HasMeasured(a) == apc[a] = "measured"

DraftOf(a) ==
    LET d == draft[a] IN
    /\ d = [end |-> d.end, created |-> d.created, measured |-> d.measured,
             outcome |-> d.outcome]
    /\ d.end \in Int /\ d.created \in Int /\ d.measured \in Int
    /\ d.created < now /\ d.measured < now
    /\ Started(a) => IsOutcome(d.outcome)
    /\ HasMeasured(a) => d.outcome.score # None

DraftInv ==
    /\ now \in Int /\ 1 <= now /\ last \in Int
    /\ DOMAIN apc = Analyses /\ DOMAIN draft = Analyses
    /\ \A a \in Analyses : DraftOf(a)

StoredInv ==
    /\ IsFiniteSet(runs)
    /\ \A x \in runs : /\ IsRun(x) /\ x.created < now /\ x.measured < now
                       /\ x.id \in Analyses => apc[x.id] = "stored"
    /\ \A x, y \in runs : Alike(x, y) => x = y

FreshInv ==
    /\ \A a \in Analyses : Started(a) =>
         /\ \A x \in runs : x.created # draft[a].created
         /\ \A b \in Analyses :
              Started(b) /\ draft[a].created = draft[b].created => a = b
    /\ \A a \in Analyses : HasMeasured(a) =>
         /\ \A x \in runs : x.score # None => x.measured # draft[a].measured
         /\ \A b \in Analyses :
              HasMeasured(b) /\ draft[a].measured = draft[b].measured => a = b

StampInv == DraftInv /\ StoredInv /\ FreshInv

(* Reads are of stored runs, and one made after another has seen no less.   *)
LoadInv ==
    /\ DOMAIN load = Tabs
    /\ last \in Int /\ \A t \in Tabs : load[t].last \in Int
    /\ \A t \in Tabs : \A r \in DOMAIN load[t].got :
         /\ load[t].got[r] \subseteq Stored
         /\ \A q \in ReadAfter(load[t].kind, r) :
              q \in DOMAIN load[t].got /\ load[t].got[q] \subseteq load[t].got[r]

(* Nothing has a stamp yet but the earlier runs.                            *)
LEMMA StampInit == PagesInit => StampInv
<1> SUFFICES ASSUME PagesInit PROVE StampInv
  OBVIOUS
<1>1. DraftInv
  BY DEF PagesInit, DraftInv, DraftOf, NoRun, Started, HasMeasured
<1>2. StoredInv
  BY PagesAssumption DEF PagesInit, StoredInv
<1>3. FreshInv
  BY DEF PagesInit, FreshInv, Started, HasMeasured
<1> QED
  BY <1>1, <1>2, <1>3 DEF StampInv

(* An analysis moves alone, and the clock never goes back.                  *)
LEMMA OthersStand ==
    ASSUME DraftInv, NEW a \in Analyses, NEW next, NEW d, Goto(a, next),
           draft' = [draft EXCEPT ![a] = d],
           now' \in Int, now <= now', last' \in Int
    PROVE  /\ apc'[a] = next /\ draft'[a] = d
           /\ \A b \in Analyses \ {a} : apc'[b] = apc[b] /\ draft'[b] = draft[b]
           /\ DraftOf(a)' => DraftInv'
<1>1. /\ apc'[a] = next /\ draft'[a] = d
      /\ \A b \in Analyses \ {a} : apc'[b] = apc[b] /\ draft'[b] = draft[b]
      /\ DOMAIN apc' = Analyses /\ DOMAIN draft' = Analyses
  BY DEF DraftInv, Goto
<1>2. \A b \in Analyses \ {a} : DraftOf(b)'
  BY <1>1 DEF DraftInv, DraftOf, Started, HasMeasured
<1> QED
  BY <1>1, <1>2 DEF DraftInv

(* An analysis that reads its input remembers the messages of that moment.  *)
LEMMA ReadInputStamps ==
    ASSUME StampInv, NEW a \in Analyses, ReadInput(a)
    PROVE  StampInv'
<1> DEFINE d == [draft[a] EXCEPT !.end = last]
<1>1. /\ apc[a] = "idle" /\ Goto(a, "read")
      /\ draft' = [draft EXCEPT ![a] = d]
      /\ UNCHANGED <<runs, now, last>>
  BY DEF ReadInput
<1>2. DraftInv /\ DraftOf(a)
  BY DEF StampInv, DraftInv
<1>3. /\ d.end = last /\ d.created = draft[a].created
      /\ d.measured = draft[a].measured /\ d.outcome = draft[a].outcome
      /\ d = [end |-> d.end, created |-> d.created, measured |-> d.measured,
              outcome |-> d.outcome]
  <2>1. PICK e, c, m, q : draft[a] = [end |-> e, created |-> c,
                                      measured |-> m, outcome |-> q]
    BY <1>2 DEF DraftOf
  <2>2. d = [end |-> last, created |-> c, measured |-> m, outcome |-> q]
    BY <2>1
  <2> QED
    BY <2>1, <2>2
<1> HIDE DEF d
<1>4. /\ apc'[a] = "read" /\ draft'[a] = d
      /\ \A b \in Analyses \ {a} : apc'[b] = apc[b] /\ draft'[b] = draft[b]
      /\ DraftOf(a)' => DraftInv'
  <2>1. now' \in Int /\ now <= now' /\ last' \in Int
    BY <1>1, <1>2 DEF DraftInv
  <2> QED
    BY <1>1, <1>2, <2>1, OthersStand
<1>5. DraftOf(a)'
  BY <1>1, <1>2, <1>3, <1>4 DEF DraftOf, DraftInv, Started, HasMeasured
<1>6. StoredInv'
  BY <1>1, <1>4 DEF StampInv, StoredInv
<1>7. FreshInv'
  BY <1>1, <1>4 DEF StampInv, FreshInv, Started, HasMeasured
<1> QED
  BY <1>4, <1>5, <1>6, <1>7 DEF StampInv

(* The run is stamped after what it read.                                   *)
LEMMA CreateRunStamps ==
    ASSUME StampInv, NEW a \in Analyses, CreateRun(a)
    PROVE  StampInv'
<1>1. PICK o \in Outcomes :
        draft' = [draft EXCEPT ![a].outcome = o, ![a].created = now]
  BY DEF CreateRun
<1> DEFINE chosen == [draft[a] EXCEPT !.outcome = o]
           d == [chosen EXCEPT !.created = now]
<1>2. /\ apc[a] = "read" /\ Goto(a, "created")
      /\ draft' = [draft EXCEPT ![a] = d]
      /\ now' = now + 1 /\ UNCHANGED <<runs, last>>
  BY <1>1 DEF CreateRun
<1>3. DraftInv /\ DraftOf(a)
  BY DEF StampInv, DraftInv
<1>4. /\ d.end = draft[a].end /\ d.created = now
      /\ d.measured = draft[a].measured /\ d.outcome = o
      /\ d = [end |-> d.end, created |-> d.created, measured |-> d.measured,
              outcome |-> d.outcome]
  <2>1. PICK e, c, m, q : draft[a] = [end |-> e, created |-> c,
                                      measured |-> m, outcome |-> q]
    BY <1>3 DEF DraftOf
  <2>2. chosen = [end |-> e, created |-> c, measured |-> m, outcome |-> o]
    BY <2>1
  <2> HIDE DEF chosen
  <2>3. d = [end |-> e, created |-> now, measured |-> m, outcome |-> o]
    BY <2>2
  <2> QED
    BY <2>1, <2>3
<1> HIDE DEF d
<1>5. now' \in Int /\ now <= now' /\ now < now' /\ last' \in Int
  BY <1>2, <1>3 DEF DraftInv
<1>6. /\ apc'[a] = "created" /\ draft'[a] = d
      /\ \A b \in Analyses \ {a} : apc'[b] = apc[b] /\ draft'[b] = draft[b]
      /\ DraftOf(a)' => DraftInv'
  BY <1>2, <1>3, <1>5, OthersStand
<1>7. DraftOf(a)'
  BY <1>2, <1>3, <1>4, <1>5, <1>6, PagesAssumption
  DEF DraftOf, DraftInv, Started, HasMeasured
<1>8. StoredInv'
  BY <1>2, <1>3, <1>6, <1>5 DEF StampInv, StoredInv, IsRun, DraftInv
<1>9. FreshInv'
  <2>1. \A b \in Analyses : draft[b].created < now
    BY <1>3 DEF DraftInv, DraftOf
  <2>2. \A x \in runs : x.created < now
    BY DEF StampInv, StoredInv
  <2>3. now \in Int /\ ~(now < now)
    BY <1>3 DEF DraftInv
  <2> QED
    BY <1>2, <1>4, <1>6, <2>1, <2>2, <2>3
    DEF StampInv, FreshInv, Started, HasMeasured
<1> QED
  BY <1>6, <1>7, <1>8, <1>9 DEF StampInv

(* A score is measured later than every earlier one.                        *)
LEMMA CreateScoreStamps ==
    ASSUME StampInv, NEW a \in Analyses, CreateScore(a)
    PROVE  StampInv'
<1> DEFINE d == [draft[a] EXCEPT !.measured = now]
<1>1. /\ apc[a] = "created" /\ draft[a].outcome.score # None
      /\ Goto(a, "measured")
      /\ draft' = [draft EXCEPT ![a] = d]
      /\ now' = now + 1 /\ UNCHANGED <<runs, last>>
  BY DEF CreateScore
<1>2. DraftInv /\ DraftOf(a)
  BY DEF StampInv, DraftInv
<1>3. /\ d.end = draft[a].end /\ d.created = draft[a].created
      /\ d.measured = now /\ d.outcome = draft[a].outcome
      /\ d = [end |-> d.end, created |-> d.created, measured |-> d.measured,
              outcome |-> d.outcome]
  <2>1. PICK e, c, m, q : draft[a] = [end |-> e, created |-> c,
                                      measured |-> m, outcome |-> q]
    BY <1>2 DEF DraftOf
  <2>2. d = [end |-> e, created |-> c, measured |-> now, outcome |-> q]
    BY <2>1
  <2> QED
    BY <2>1, <2>2
<1> HIDE DEF d
<1>4. now' \in Int /\ now <= now' /\ now < now' /\ last' \in Int
  BY <1>1, <1>2 DEF DraftInv
<1>5. /\ apc'[a] = "measured" /\ draft'[a] = d
      /\ \A b \in Analyses \ {a} : apc'[b] = apc[b] /\ draft'[b] = draft[b]
      /\ DraftOf(a)' => DraftInv'
  BY <1>1, <1>2, <1>4, OthersStand
<1>6. DraftOf(a)'
  BY <1>1, <1>2, <1>3, <1>4, <1>5
  DEF DraftOf, DraftInv, Started, HasMeasured
<1>7. StoredInv'
  BY <1>1, <1>2, <1>5, <1>4 DEF StampInv, StoredInv, IsRun, DraftInv
<1>8. FreshInv'
  <2>1. \A b \in Analyses : draft[b].measured < now
    BY <1>2 DEF DraftInv, DraftOf
  <2>2. \A x \in runs : x.measured < now
    BY DEF StampInv, StoredInv
  <2>3. now \in Int /\ ~(now < now)
    BY <1>2 DEF DraftInv
  <2> QED
    BY <1>1, <1>3, <1>5, <2>1, <2>2, <2>3
    DEF StampInv, FreshInv, Started, HasMeasured
<1> QED
  BY <1>5, <1>6, <1>7, <1>8 DEF StampInv

(* What is stored is whole, and its stamps are its own.                     *)
LEMMA StoreRunStamps ==
    ASSUME StampInv, NEW a \in Analyses, StoreRun(a)
    PROVE  StampInv'
<1> DEFINE d == draft[a]
           run == [id |-> a, status |-> d.outcome.status,
                   score |-> d.outcome.score, found |-> d.outcome.found,
                   end |-> d.end, created |-> d.created,
                   measured |-> d.measured]
<1>1. /\ apc[a] = "measured" \/ (apc[a] = "created" /\ d.outcome.score = None)
      /\ Goto(a, "stored")
      /\ runs' = runs \cup {run}
      /\ draft' = [draft EXCEPT ![a] = NoRun]
      /\ UNCHANGED <<now, last>>
  BY DEF StoreRun
<1>2. DraftInv /\ DraftOf(a) /\ now' \in Int /\ now <= now' /\ last' \in Int
  BY <1>1 DEF StampInv, DraftInv
<1>3. /\ apc'[a] = "stored" /\ draft'[a] = NoRun
      /\ \A b \in Analyses \ {a} : apc'[b] = apc[b] /\ draft'[b] = draft[b]
      /\ DraftOf(a)' => DraftInv'
  BY <1>1, <1>2, OthersStand
<1>4. DraftOf(a)'
  BY <1>1, <1>2, <1>3 DEF DraftOf, DraftInv, NoRun, Started, HasMeasured
<1>5. /\ run.id = a /\ run.created = d.created /\ run.measured = d.measured
      /\ run.score = d.outcome.score /\ run.status = d.outcome.status
      /\ run.end = d.end
  OBVIOUS
<1> HIDE DEF run
<1>6. IsRun(run) /\ run.created < now /\ run.measured < now
  <2>1. /\ d.end \in Int /\ d.created \in Int /\ d.measured \in Int
        /\ d.created < now /\ d.measured < now /\ IsOutcome(d.outcome)
    BY <1>1, <1>2 DEF DraftOf, Started
  <2>2. IsOutcome(run)
    <3>1. run.status = d.outcome.status /\ run.score = d.outcome.score
      BY <1>5
    <3>2. /\ d.outcome.status \in {"completed", "partial", "failed"}
          /\ (d.outcome.score = None) <=> (d.outcome.status = "failed")
          /\ (d.outcome.score # None) => d.outcome.score \in 0 .. 1000
      BY <2>1 DEF IsOutcome
    <3> HIDE DEF d
    <3> QED
      BY ONLY <3>1, <3>2, ZenonT(60) DEF IsOutcome
  <2>3. /\ run.end \in Int /\ run.created \in Int /\ run.measured \in Int
        /\ run.created < now /\ run.measured < now
    BY <2>1, <1>5
  <2> HIDE DEF d
  <2> QED
    BY <2>2, <2>3 DEF IsRun
<1>7. \A x \in runs : ~Alike(x, run) /\ ~Alike(run, x)
  BY <1>1, <1>5 DEF StampInv, StoredInv, FreshInv, Alike, Started, HasMeasured
<1>8. StoredInv'
  <2>1. IsFiniteSet(runs')
    BY <1>1, FS_AddElement DEF StampInv, StoredInv
  <2>2. \A x \in runs' :
           /\ IsRun(x) /\ x.created < now' /\ x.measured < now'
           /\ x.id \in Analyses => apc'[x.id] = "stored"
    BY <1>1, <1>3, <1>5, <1>6 DEF StampInv, StoredInv
  <2>3. \A x, y \in runs' : Alike(x, y) => x = y
    BY <1>1, <1>7 DEF StampInv, StoredInv
  <2> QED
    BY <2>1, <2>2, <2>3 DEF StoredInv, IsRun, IsOutcome, Alike
<1>9. FreshInv'
  BY <1>1, <1>3, <1>5 DEF StampInv, FreshInv, Started, HasMeasured
<1> QED
  BY <1>3, <1>4, <1>8, <1>9 DEF StampInv

(* Every step keeps the stamps in order.                                    *)
LEMMA StampStep == StampInv /\ [PagesNext]_pagesVars => StampInv'
<1> SUFFICES ASSUME StampInv, [PagesNext]_pagesVars PROVE StampInv'
  OBVIOUS
<1>1. CASE UNCHANGED backendVars
  BY <1>1 DEF backendVars, StampInv, DraftInv, DraftOf, StoredInv, FreshInv,
              Started, HasMeasured
<1>2. ASSUME NEW t \in Tabs,
             \/ \E kind \in {"health", "overview"} : Open(t, kind)
             \/ \E r \in {"scores", "trend", "explained", "status", "events",
                          "claims", "latest"} : Read(t, r)
             \/ Show(t)
             \/ \E a \in Analyses : TellRun(t, a)
      PROVE  UNCHANGED backendVars
  BY <1>2 DEF Open, Read, Show, TellRun
<1>3. CASE Ingest
  <2>1. UNCHANGED <<apc, draft, runs, now>> /\ last' = last + 1
    BY <1>3 DEF Ingest
  <2> QED
    BY <2>1 DEF StampInv, DraftInv, DraftOf, StoredInv, FreshInv, Started,
                HasMeasured
<1>4. CASE UNCHANGED pagesVars
  BY <1>1, <1>4 DEF pagesVars
<1> QED
  BY <1>1, <1>2, <1>3, <1>4, ReadInputStamps, CreateRunStamps,
     CreateScoreStamps, StoreRunStamps DEF PagesNext

(* No tab has read anything at first.                                       *)
LEMMA LoadInit == PagesInit => LoadInv
BY DEF PagesInit, LoadInv, NoLoad, Unread

(* A load begins without reads.                                             *)
LEMMA BeginsEmpty ==
    ASSUME LoadInv, NEW t \in Tabs, NEW kind, NEW owed, Loading(t, kind, owed),
           UNCHANGED <<runs, last>>
    PROVE  LoadInv'
<1>1. load' = [load EXCEPT ![t] = [NoLoad EXCEPT !.kind = kind, !.owed = owed]]
      /\ DOMAIN load = Tabs
  BY DEF Loading, LoadInv
<1>2. DOMAIN load'[t].got = {} /\ load'[t].last \in Int
  BY <1>1 DEF NoLoad, Unread
<1>3. \A u \in Tabs \ {t} : load'[u] = load[u]
  BY <1>1
<1>4. DOMAIN load' = Tabs /\ Stored' = Stored
  BY <1>1 DEF Stored
<1> QED
  BY <1>2, <1>3, <1>4 DEF LoadInv, ReadAfter

(* A read of what is stored now holds what the reads before it saw.         *)
LEMMA LoadStep == LoadInv /\ [PagesNext]_pagesVars => LoadInv'
<1> SUFFICES ASSUME LoadInv, [PagesNext]_pagesVars PROVE LoadInv'
  OBVIOUS
<1>1. ASSUME UNCHANGED load, last' \in Int, Stored \subseteq Stored'
      PROVE  LoadInv'
  BY <1>1 DEF LoadInv
<1>2. ASSUME NEW t \in Tabs, NEW kind, Open(t, kind) PROVE LoadInv'
  BY <1>2, BeginsEmpty DEF Open, backendVars
<1>3. ASSUME NEW t \in Tabs, NEW a \in Analyses, TellRun(t, a) PROVE LoadInv'
  <2>1. UNCHANGED <<runs, last>> /\ Stored' = Stored
    BY <1>3 DEF TellRun, backendVars, Stored
  <2>2. CASE load[t].kind = "none"
    BY <1>3, <2>1, <2>2, BeginsEmpty DEF TellRun
  <2>3. CASE load[t].kind # "none"
    BY <1>1, <1>3, <2>1, <2>3 DEF TellRun, LoadInv
  <2> QED
    BY <2>2, <2>3
<1>4. ASSUME NEW t \in Tabs, NEW r, Read(t, r) PROVE LoadInv'
  <2>1. /\ Stored' = Stored /\ last' = last
        /\ DOMAIN load' = Tabs
        /\ \A u \in Tabs \ {t} : load'[u] = load[u]
    BY <1>4 DEF Read, backendVars, LoadInv, Stored
  <2>2. /\ load'[t].kind = load[t].kind
        /\ load'[t].got = [x \in DOMAIN load[t].got \cup {r} |->
                             IF x = r THEN Stored ELSE load[t].got[x]]
        /\ load'[t].last \in Int
    BY <1>4 DEF Read, Seen, LoadInv
  <2>3. r \notin DOMAIN load[t].got
        /\ ReadAfter(load[t].kind, r) \subseteq DOMAIN load[t].got
    BY <1>4 DEF Read
  <2>4. \A x \in DOMAIN load[t].got :
          /\ load[t].got[x] \subseteq Stored
          /\ \A q \in ReadAfter(load[t].kind, x) :
               q \in DOMAIN load[t].got /\ load[t].got[q] \subseteq load[t].got[x]
    BY DEF LoadInv
  <2>5. \A x \in DOMAIN load'[t].got :
          /\ load'[t].got[x] \subseteq Stored
          /\ \A q \in ReadAfter(load[t].kind, x) :
               q \in DOMAIN load'[t].got /\ load'[t].got[q] \subseteq load'[t].got[x]
    BY <2>2, <2>3, <2>4
  <2> QED
    BY <2>1, <2>2, <2>5, ZenonT(60) DEF LoadInv, ReadAfter
<1>5. ASSUME NEW t \in Tabs, Show(t) PROVE LoadInv'
  <2>1. UNCHANGED <<runs, last>> /\ Stored' = Stored
    BY <1>5 DEF Show, backendVars, Stored
  <2>2. CASE again[t]
    BY <1>5, <2>1, <2>2, BeginsEmpty DEF Show
  <2>3. CASE ~again[t]
    BY <1>5, <2>1, <2>3 DEF Show, LoadInv, NoLoad, Unread
  <2> QED
    BY <2>2, <2>3
<1>6. ASSUME NEW a \in Analyses,
             ReadInput(a) \/ CreateRun(a) \/ CreateScore(a) \/ StoreRun(a)
      PROVE  LoadInv'
  <2>1. UNCHANGED <<load, last>> /\ runs \subseteq runs'
    BY <1>6 DEF ReadInput, CreateRun, CreateScore, StoreRun, pageVars
  <2> QED
    BY <1>1, <2>1 DEF Stored, LoadInv
<1>7. CASE Ingest \/ UNCHANGED pagesVars
  BY <1>1, <1>7 DEF Ingest, pagesVars, backendVars, pageVars, Stored, LoadInv
<1> QED
  BY <1>2, <1>3, <1>4, <1>5, <1>6, <1>7 DEF PagesNext

-----------------------------------------------------------------------------
(* What is stored, taken as a whole: both inductive invariants always hold. *)
LEMMA StampsAndLoads == PagesSpec => [](StampInv /\ LoadInv)
<1>1. PagesInit => StampInv /\ LoadInv
  BY StampInit, LoadInit
<1>2. StampInv /\ LoadInv /\ [PagesNext]_pagesVars => (StampInv /\ LoadInv)'
  BY StampStep, LoadStep
<1> QED
  BY <1>1, <1>2, PTL DEF PagesSpec

(* Of some runs one has the highest stamp: the row that a descending order  *)
(* puts first exists.                                                       *)
LEMMA HighestExists ==
    ASSUME NEW S, NEW a \in S, NEW f, NEW bound \in Int,
           \A x \in S : f[x] \in Int /\ f[x] <= bound
    PROVE  \E m \in S : \A x \in S : f[x] <= f[m]
<1> DEFINE g == [x \in S |-> bound - f[x]]
<1>1. \A x \in S : g[x] \in Nat /\ g[x] = bound - f[x]
  OBVIOUS
<1> HIDE DEF g
<1>2. PICK m \in S : \A x \in S : g[m] <= g[x]
  BY <1>1, LeastOf
<1>3. ASSUME NEW x \in S PROVE f[x] <= f[m]
  BY <1>1, <1>2
<1> QED
  BY <1>3

(* The list of sessions reads the latest score last, so that it never puts  *)
(* the detections of a newer scored run beside an older score.              *)
THEOREM OverviewsPutTheLatestScore == PagesSpec => []OverviewScoreNotOlder
<1>1. ASSUME StampInv, LoadInv PROVE OverviewScoreNotOlder
  <2> SUFFICES ASSUME NEW t \in Tabs, Complete(t), load[t].kind = "overview",
                      NEW run \in RunsIn(Scored(load[t].got["events"]
                                                 \cup load[t].got["claims"]))
               PROVE  \E shown \in NewestScored(load[t].got["latest"]) :
                         shown.measured >= run.measured
    BY DEF OverviewScoreNotOlder, Overviews, PagesOf
  <2> DEFINE latest == load[t].got["latest"]
             S == RunsIn(Scored(latest))
  <2>1. /\ "latest" \in DOMAIN load[t].got
        /\ ReadAfter(load[t].kind, "latest") = {"events", "claims"}
    BY DEF Complete, ReadsOf, ReadAfter
  <2>2. load[t].got["events"] \cup load[t].got["claims"] \subseteq latest
    BY <1>1, <2>1 DEF LoadInv
  <2>3. run \in S
    BY <2>2 DEF RunsIn, Scored
  <2>4. \A x \in S : x.measured \in Int /\ x.measured <= now
    BY <1>1 DEF StampInv, StoredInv, IsRun, DraftInv, RunsIn
  <2> DEFINE f == [x \in S |-> x.measured]
  <2>5. \A x \in S : f[x] = x.measured /\ f[x] \in Int /\ f[x] <= now
    BY <2>4
  <2>6. now \in Int
    BY <1>1 DEF StampInv, DraftInv
  <2> HIDE DEF f, S
  <2>7. PICK m \in S : \A x \in S : f[x] <= f[m]
    BY <2>3, <2>5, <2>6, HighestExists
  <2>8. m \in NewestScored(latest) /\ m.measured >= run.measured
    BY <2>3, <2>5, <2>7 DEF NewestScored, S
  <2> QED
    BY <2>8
<1> QED
  BY <1>1, StampsAndLoads, PTL

(* A page whose score is of a partial run, or does not cover the last       *)
(* message, carries the notice, unless the scored run was stored after the  *)
(* status had been read, or the status is of a newer, complete run that was *)
(* stored after the scores had been read or was measured before it.  The    *)
(* newest run the status saw is the scored one, failed, or one of these;    *)
(* and what the tab was told of, every read saw (ToldInv).                  *)
THEOREM ScoresCarryTheirNotice == PagesSpec => []ScoreNotTakenForMore
<1>1. ASSUME StampInv, LoadInv, ToldInv PROVE ScoreNotTakenForMore
  <2> SUFFICES ASSUME NEW t \in Tabs, Complete(t), load[t].kind = "health",
                      NEW run \in NewestScored(load[t].got["scores"]),
                      run.status # "completed" \/ run.end < load[t].last,
                      ~Notice(load[t]),
                      run.id \in load[t].got["status"] \cup load[t].owed
               PROVE  \E newer \in Newest(load[t].got["status"]) :
                        /\ newer.status = "completed" /\ newer.end >= load[t].last
                        /\ run.created < newer.created
                        /\ \/ newer.id \notin load[t].got["scores"]
                                            \cup load[t].owed
                           \/ /\ newer.score # None
                              /\ newer.measured < run.measured
    BY DEF ScoreNotTakenForMore, HealthPages, PagesOf
  <2> DEFINE p == load[t]
             seen == p.got["status"]
             scored == p.got["scores"]
             S == RunsIn(seen)
             f == [x \in S |-> x.created]
  <2>1. p.owed \subseteq seen /\ p.owed \subseteq scored
    BY <1>1 DEF ToldInv, Complete, ReadsOf
  <2>2. /\ run \in S /\ run \in runs /\ run.score # None
        /\ \A x \in runs : x.id \in scored /\ x.score # None
                          => x.measured <= run.measured
    <3>1. run \in RunsIn(seen)
      BY <2>1 DEF NewestScored, RunsIn
    <3>2. /\ run \in runs /\ run.id \in Scored(scored)
          /\ \A x \in RunsIn(Scored(scored)) : x.measured <= run.measured
      BY DEF NewestScored, RunsIn
    <3>3. run.score # None
      BY <1>1, <3>2 DEF Scored, StampInv, StoredInv, Alike
    <3>4. ASSUME NEW x \in runs, x.id \in scored, x.score # None
          PROVE  x.measured <= run.measured
      BY <3>2, <3>4 DEF RunsIn, Scored
    <3> QED
      BY <3>1, <3>2, <3>3, <3>4
  <2>3. \A x \in S : /\ x \in runs /\ IsRun(x) /\ x.created \in Int
                     /\ x.measured \in Int /\ x.end \in Int
                     /\ x.created <= now
    BY <1>1 DEF StampInv, StoredInv, DraftInv, IsRun, RunsIn
  <2>4. now \in Int
    BY <1>1 DEF StampInv, DraftInv
  <2>5. \A x \in S : f[x] = x.created /\ f[x] \in Int /\ f[x] <= now
    BY <2>3
  <2> HIDE DEF f
  <2>6. PICK m \in S : \A x \in S : f[x] <= f[m]
    <3> HIDE DEF S
    <3> QED
      BY <2>2, <2>4, <2>5, HighestExists
  <2>7. m \in Newest(seen) /\ run.created <= m.created /\ m \in runs
    BY <2>2, <2>3, <2>5, <2>6 DEF Newest
  <2>8. m.status \notin {"partial", "failed"} /\ ~(p.last > m.end)
    BY <2>7 DEF Notice
  <2>9. m.status = "completed" /\ m.score # None
    BY <2>3, <2>8 DEF IsRun, IsOutcome
  <2>10. m # run /\ m.end >= p.last
    <3>1. m.end \in Int /\ p.last \in Int
      BY <1>1, <2>3, <2>6 DEF LoadInv
    <3> QED
      BY <2>8, <2>9, <3>1
  <2>11. m.created # run.created
    BY <1>1, <2>2, <2>7, <2>10 DEF StampInv, StoredInv, Alike
  <2>12. run.created < m.created
    BY <2>2, <2>3, <2>7, <2>11
  <2>13. CASE m.id \in scored
    <3>1. m.measured <= run.measured
      BY <2>2, <2>7, <2>9, <2>13
    <3>2. m.measured # run.measured
      BY <1>1, <2>2, <2>7, <2>9, <2>10 DEF StampInv, StoredInv, Alike
    <3>3. m.measured < run.measured
      BY <2>2, <2>3, <3>1, <3>2
    <3> QED
      BY <2>7, <2>9, <2>10, <2>12, <3>3
  <2>14. CASE m.id \notin scored
    BY <2>1, <2>7, <2>9, <2>10, <2>12, <2>14
  <2> QED
    BY <2>13, <2>14
<1> QED
  BY <1>1, StampsAndLoads, ToldInit, ToldStep, PTL DEF PagesSpec

-----------------------------------------------------------------------------
(* The scored runs have an order by measured_at, and Checkpoints is it.     *)
LEMMA CheckpointsOrdered ==
    ASSUME StampInv, NEW ids
    PROVE  /\ Len(Checkpoints(ids)) \in Nat
           /\ Len(Checkpoints(ids)) = Cardinality(RunsIn(Scored(ids)))
           /\ DOMAIN Checkpoints(ids) = 1 .. Len(Checkpoints(ids))
           /\ \A i \in DOMAIN Checkpoints(ids) :
                /\ Checkpoints(ids)[i].score \in Int
                /\ Checkpoints(ids)[i].end \in Int
<1> DEFINE S == RunsIn(Scored(ids))
           f == [x \in S |-> x.measured]
           n == Cardinality(S)
           Sorted(s) == \A i, j \in DOMAIN s : i < j => s[i].measured < s[j].measured
<1>1. S \subseteq runs /\ IsFiniteSet(S) /\ n \in Nat
  BY FS_Subset, FS_CardinalityType DEF StampInv, StoredInv, RunsIn
<1>2. \A x \in S : x.score # None
  BY DEF StampInv, StoredInv, Alike, RunsIn, Scored
<1>3. \A x \in S : /\ x.measured \in Int /\ x.measured <= now
                   /\ x.end \in Int /\ x.score \in Int
  <2> SUFFICES ASSUME NEW x \in S
               PROVE  /\ x.measured \in Int /\ x.measured <= now
                      /\ x.end \in Int /\ x.score \in Int
    OBVIOUS
  <2>1. /\ x \in runs /\ IsRun(x) /\ x.measured < now /\ x.score # None
        /\ now \in Int
    BY <1>1, <1>2 DEF StampInv, StoredInv, DraftInv
  <2>2. x.measured \in Int /\ x.end \in Int /\ IsOutcome(x)
    BY <2>1 DEF IsRun
  <2>3. x.score \in 0 .. 1000
    BY ONLY <2>1, <2>2, ZenonT(60) DEF IsOutcome
  <2>4. x.score \in Int
    BY ONLY <2>3
  <2>5. x.measured <= now
    BY ONLY <2>1, <2>2
  <2> QED
    BY ONLY <2>2, <2>4, <2>5
<1>4. \A x \in S : f[x] = x.measured /\ f[x] \in Int /\ f[x] <= now
  BY ONLY <1>3
<1>5. \A x, y \in S : f[x] = f[y] => x = y
  BY <1>1, <1>2, <1>4 DEF StampInv, StoredInv, Alike
<1>6. now \in Int
  BY DEF StampInv, DraftInv
<1>7. Checkpoints(ids) = CHOOSE s \in [1 .. n -> S] : Sorted(s)
  BY DEF Checkpoints
<1> HIDE DEF f, S
<1>8. PICK s \in [1 .. n -> S] : \A i, j \in 1 .. n : i < j => f[s[i]] < f[s[j]]
  BY ONLY <1>1, <1>4, <1>5, <1>6, SortingExists
<1>9. Sorted(s)
  BY <1>4, <1>8
<1> HIDE DEF Sorted, n
<1>10. Checkpoints(ids) \in [1 .. n -> S]
  BY <1>7, <1>9
<1>11. Len(Checkpoints(ids)) = n /\ DOMAIN Checkpoints(ids) = 1 .. n
  BY <1>1, <1>10
<1> QED
  BY <1>1, <1>3, <1>10, <1>11 DEF n, S

(* Of fewer runs there are no more checkpoints.                             *)
LEMMA CheckpointsGrow ==
    ASSUME StampInv, NEW ids, NEW more, ids \subseteq more
    PROVE  Len(Checkpoints(ids)) <= Len(Checkpoints(more))
<1>1. RunsIn(Scored(ids)) \subseteq RunsIn(Scored(more))
  BY DEF RunsIn, Scored
<1>2. IsFiniteSet(RunsIn(Scored(more)))
  BY FS_Subset DEF StampInv, StoredInv, RunsIn
<1>3. Cardinality(RunsIn(Scored(ids))) <= Cardinality(RunsIn(Scored(more)))
  BY ONLY <1>1, <1>2, FS_Subset
<1> QED
  BY <1>3, CheckpointsOrdered

(* The checkpoints of a page are points of a trend.                         *)
LEMMA PointsOfCheckpoints ==
    ASSUME StampInv, NEW ids
    PROVE  /\ Points(ids) \in Seq(Point)
           /\ Len(Points(ids)) = Len(Checkpoints(ids))
           /\ \A i \in DOMAIN Checkpoints(ids) :
                Points(ids)[i].score = Checkpoints(ids)[i].score
<1> DEFINE c == Checkpoints(ids)
           n == Len(c)
           point(i) == [score |-> c[i].score, length |-> c[i].end]
<1>1. /\ n \in Nat /\ DOMAIN c = 1 .. n
      /\ \A i \in 1 .. n : c[i].score \in Int /\ c[i].end \in Int
  BY CheckpointsOrdered
<1>2. Points(ids) = [i \in 1 .. n |-> point(i)]
  BY <1>1 DEF Points
<1> HIDE DEF c, n
<1>3. \A i \in 1 .. n : point(i) \in Point /\ point(i).score = c[i].score
  BY <1>1 DEF Point
<1> HIDE DEF point
<1>4. Points(ids) \in [1 .. n -> Point]
  BY <1>2, <1>3
<1>5. Points(ids) \in Seq(Point) /\ Len(Points(ids)) = n
  BY <1>1, <1>4
<1> QED
  BY <1>1, <1>2, <1>3, <1>5 DEF n, c

(* The trend a page shows is one its own checkpoints bear out.              *)
THEOREM TrendsAreBornOut == PagesSpec => []TrendBornOut
<1>1. ASSUME StampInv PROVE TrendBornOut
  BY <1>1, PointsOfCheckpoints, TrendIsBetweenSteps, DegradingIsWorse
  DEF TrendBornOut
<1> QED
  BY <1>1, StampsAndLoads, PTL

(* The explanation never tells of a first run beside a trend of several     *)
(* checkpoints, since it is queried after the trend.  When no run landed    *)
(* between the two queries, what they say of two checkpoints differs only   *)
(* where the change lies between their thresholds, and there the trend says *)
(* "stable" and the explanation the direction.                              *)
THEOREM OneStoryTold == PagesSpec => []OneStory
<1>1. ASSUME StampInv, NEW ids
      PROVE  TwoCheckpointsAgree(Points(ids), Reverse(Checkpoints(ids)))
  <2> DEFINE c == Checkpoints(ids)
             r == Reverse(c)
  <2>1. Len(c) \in Nat /\ DOMAIN c = 1 .. Len(c)
    BY <1>1, CheckpointsOrdered
  <2>2. /\ Points(ids) \in Seq(Point) /\ Len(Points(ids)) = Len(c)
        /\ \A i \in 1 .. Len(c) : Points(ids)[i].score = c[i].score
    BY <1>1, <2>1, PointsOfCheckpoints
  <2> HIDE DEF c
  <2>3. r = [i \in 1 .. Len(c) |-> c[(Len(c) - i) + 1]]
    BY DEF Reverse
  <2> HIDE DEF r
  <2>4. Len(r) = Len(c)
    BY <2>1, <2>3
  <2>5. ASSUME Len(c) = 2 PROVE r[1] = c[2] /\ r[2] = c[1]
    BY <2>3, <2>5
  <2>6. Len(Points(ids)) = 2 =>
          /\ r[1].score = Points(ids)[2].score
          /\ r[2].score = Points(ids)[1].score
    BY <2>2, <2>5
  <2>7. TwoCheckpointsAgree(Points(ids), r)
    BY <2>2, <2>4, <2>6, TrendAgreesWithExplanation
  <2> QED
    BY <2>7 DEF r, c
<1>2. ASSUME StampInv, LoadInv PROVE OneStory
  <2> SUFFICES ASSUME NEW t \in Tabs, Complete(t), load[t].kind = "health"
               PROVE  LET got == load[t].got
                          points == Points(got["trend"])
                          newest_first == Reverse(Checkpoints(got["explained"]))
                      IN  /\ Explanation(newest_first).direction = "initial"
                               => Len(points) < 2
                          /\ got["trend"] = got["explained"] =>
                               TwoCheckpointsAgree(points, newest_first)
    BY DEF OneStory, HealthPages, PagesOf
  <2> DEFINE trend == load[t].got["trend"]
             explained == load[t].got["explained"]
  <2>1. /\ "explained" \in DOMAIN load[t].got
        /\ ReadAfter(load[t].kind, "explained") = {"trend"}
    BY DEF Complete, ReadsOf, ReadAfter
  <2>2. trend \subseteq explained
    BY <1>2, <2>1 DEF LoadInv
  <2> HIDE DEF trend, explained
  <2>3. Len(Checkpoints(trend)) <= Len(Checkpoints(explained))
    BY <1>2, <2>2, CheckpointsGrow
  <2>4. /\ Len(Checkpoints(trend)) \in Nat /\ Len(Checkpoints(explained)) \in Nat
        /\ Len(Points(trend)) = Len(Checkpoints(trend))
        /\ Len(Points(explained)) = Len(Checkpoints(explained))
    BY <1>2, CheckpointsOrdered, PointsOfCheckpoints
  <2>5. TwoCheckpointsAgree(Points(explained), Reverse(Checkpoints(explained)))
    BY <1>1, <1>2
  <2>6. Explanation(Reverse(Checkpoints(explained))).direction = "initial"
          => Len(Points(explained)) < 2
    BY <2>5 DEF TwoCheckpointsAgree
  <2>7. Explanation(Reverse(Checkpoints(explained))).direction = "initial"
          => Len(Points(trend)) < 2
    BY <2>3, <2>4, <2>6
  <2> QED
    BY <2>5, <2>7 DEF trend, explained
<1> QED
  BY <1>2, StampsAndLoads, PTL
=============================================================================
