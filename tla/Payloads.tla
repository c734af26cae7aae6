------------------------------ MODULE Payloads ------------------------------
(***************************************************************************)
(* Every layout frf-fuzz writes and reads: what an encoder writes (...Out) *)
(* and what the decoder of the same payload reads (...In), field by field  *)
(* in the order of the two functions.  Fields of a kind that stand next to *)
(* each other and carry no check are one field here.                       *)
(***************************************************************************)
EXTENDS Wire

(* The bounds, scaled down.                                                *)
MaxInput == 2
MaxDict == 1
MaxEntry == 2
MaxFeatures == 1
MaxEvents == 1
MaxFound == 1
MaxText == 1
MaxEvidence == 1
MaxAxes == 2
MaxRecord == 60
MaxFrame == 9
MaxObject == 1
Header == 6         \* units of a frame before its payload

(* The codes of each enumeration.                                          *)
Mutators == 1..16
MsgKinds == 1..8
Families == 1..17
Executions == 1..3
FindingKinds == 1..3
Replays == 0..2
Reasons == 1..8
Terminations == 1..3
Sources == 1..5
Relations == 1..5
Checks == 1..3
Verdicts == 0..1
BoundaryKinds == 1..5
PublishStates == 0..1
Failures == 0..5
Closes == 1..2
Expectations == 1..2
Outcomes == 1..3
TerminalKinds == 1..4
Confusers == 0..4
Statuses == 1..3
Modes == 0..2
Classes == 0..13
Policies == 0..3
SignalIds == 0..1
FeatureList(n, max) == List(n, max, <<Num("f")>>)

-----------------------------------------------------------------------------
(* The protocol of coordinator and worker. *)

FrameOut == <<Ver(7), Ver(1), Num("minor"), Code("kind", MsgKinds),
              Len4("payload", MaxFrame - Header), Pad, Body("payload"), Crc>>
FrameIn  == <<Ver(7), Ver(1), Num("minor"), Code("kind", MsgKinds),
              Len4("payload", MaxFrame), Pad, Body("payload"), Crc>>

OrderOut == <<Ver(2), Num("seed"), Num("generation"), Num("mutator"), Num("lane"),
              Num("start"), Num("count"), Bytes("parent", MaxInput), Num("short"),
              Signals("signals"), Bytes("partner", MaxInput),
              List("dictionary", MaxDict, <<Bytes("entry", MaxEntry)>>),
              FeatureList("features", MaxFeatures), Bytes("override", MaxInput)>>
OrderIn  == <<Ver(2), Num("seed"), Num("generation"), Num("mutator"), Num("lane"),
              Num("start"), Code("count", 1..Most), Bytes("parent", MaxInput), Num("short"),
              Signals("signals"), Bytes("partner", MaxInput),
              List("dictionary", MaxDict, <<Bytes("entry", MaxEntry)>>),
              FeatureList("features", MaxFeatures), Bytes("override", MaxInput)>>

CoordinateOut == <<Ver(1), Num("seed"), Num("short"), Num("generation"),
                   Code("mutator", Mutators), Num("lane"), Num("index"), Num("probe")>>
CoordinateIn  == <<Ver(1), Num("seed"), Num("short"), Num("generation"),
                   Code("mutator", Mutators), Num("lane"), Num("index"), Num("probe")>>

EventOut  == <<Num("kind"), Num("width"), Num("a"), Num("b")>>
HitOut    == <<Num("width"), Num("value")>>
SketchOut == <<Num("magnitudes"), Num("directions"), Num("new"), Num("lost")>>
SketchIn  == <<Num("magnitudes"), Num("directions"), Num("new"), Num("lost")>>

DiscoveryOut == <<Rec("coordinate", CoordinateOut), Code("status", Executions),
                  FeatureList("features", MaxFeatures), List("events", MaxEvents, EventOut),
                  List("hits", MaxEvents, HitOut), Signals("signals"),
                  Rec("sketch", SketchOut), Num("time")>>
DiscoveryIn  == <<Rec("coordinate", CoordinateIn), Code("status", Executions),
                  FeatureList("features", MaxFeatures), List("events", MaxEvents, EventOut),
                  List("hits", MaxEvents, HitOut), Signals("signals"),
                  Rec("sketch", SketchIn), Num("time")>>

SummaryOut == <<Num("count"), Num("min"), Num("max"), Num("sum"), Num("run")>>
SummaryIn  == <<Num("count"), Num("min"), Num("max"), Num("sum"), Num("run")>>

ResultOut == <<Ver(2), Num("executed"), Num("timeouts"), Flag("truncated"),
               List("found", MaxFound, <<Blob("record", MaxRecord, DiscoveryOut)>>),
               Blob("summary", MaxRecord, <<Touched("axes", SummaryOut)>>),
               FeatureList("override", Most), Signals("signals")>>
ResultIn  == <<Ver(2), Num("executed"), Num("timeouts"), Flag("truncated"),
               List("found", MaxFound, <<Blob("record", MaxRecord, DiscoveryIn)>>),
               Blob("summary", MaxRecord, <<Touched("axes", SummaryIn)>>),
               FeatureList("override", MaxFeatures), Signals("signals")>>

HelloOut == <<Ver(2), Num("mode"), Num("ranges"), Num("counters"), Num("pid"),
              Bytes("rustc", MaxText), Bytes("llvm", MaxText),
              List("schema", MaxAxes, <<Num("id"), Bytes("name", MaxText), Bytes("unit", MaxText)>>)>>
HelloIn  == <<Ver(2), Num("mode"), Num("ranges"), Num("counters"), Num("pid"),
              Bytes("rustc", MaxText), Bytes("llvm", MaxText),
              List("schema", MaxAxes, <<Num("id"), Bytes("name", MaxText), Bytes("unit", MaxText)>>)>>

-----------------------------------------------------------------------------
(* The objects of the store. *)

ObjectOut == <<Ver(7), Code("family", Families), Ver(1), Num("minor"),
               Len4("payload", MaxObject), Body("payload")>>
ObjectIn  == <<Ver(7), Code("family", Families), Ver(1), Num("minor"),
               Len4("payload", MaxObject), Body("payload")>>

FindingOut == <<Ver(1), Code("kind", FindingKinds), Num("short"), Num("coordinate"),
                Code("replay", Replays), Bytes("input", MaxInput)>>

FindingIn  == <<Ver(1), Code("kind", FindingKinds), Num("short"), Num("coordinate"),
                Code("replay", Replays), Bytes("input", MaxInput)>>

MetaOut == <<Ver(2), Num("entry"), OrZero("parent"), Num("generation"),
             Code("reason", Reasons), FeatureList("features", MaxFeatures),
             Signals("signals"), OrZero("mutator"), OrZero("morphology"), Num("seq")>>

(* Slip: the ids of mutator and morphology are read the other way round.   *)
MetaInSwapped == <<Ver(2), Num("entry"), OrZero("parent"), Num("generation"),
             Code("reason", Reasons), FeatureList("features", MaxFeatures),
             Signals("signals"), OrZero("morphology"), OrZero("mutator"), Num("seq")>>
MetaIn  == <<Ver(2), Num("entry"), OrZero("parent"), Num("generation"),
             Code("reason", Reasons), FeatureList("features", MaxFeatures),
             Signals("signals"), OrZero("mutator"), OrZero("morphology"), Num("seq")>>

ObservationOut == <<FeatureList("features", MaxFeatures), Signals("signals"),
                    Rec("sketch", SketchOut), List("events", MaxEvents, EventOut), Num("time")>>
ObservationIn  == <<FeatureList("features", MaxFeatures), Signals("signals"),
                    Rec("sketch", SketchIn), List("events", MaxEvents, EventOut), Num("time")>>

TapeOut == <<Ver(1), Num("build"), Num("environment"), Bytes("candidate", MaxInput),
             Opt("coordinate", CoordinateOut), Code("mode", Modes),
             Opt("observation", ObservationOut), Code("termination", Terminations),
             Opt("lineage", <<Num("root"), Num("mutator")>>), Code("source", Sources)>>
TapeIn  == <<Ver(1), Num("build"), Num("environment"), Bytes("candidate", MaxInput),
             Opt("coordinate", CoordinateIn), Code("mode", Modes),
             Opt("observation", ObservationIn), Code("termination", Terminations),
             Opt("lineage", <<Num("root"), Num("mutator")>>), Code("source", Sources)>>

WitnessOut == <<Ver(1), Num("left"), Num("right"), Bytes("left_input", MaxInput),
                Bytes("right_input", MaxInput), Code("relation", Relations), Num("distance"),
                Code("verification", Checks), Opt("tape", <<Num("id")>>)>>
WitnessIn  == <<Ver(1), Num("left"), Num("right"), Bytes("left_input", MaxInput),
                Bytes("right_input", MaxInput), Code("relation", Relations), Num("distance"),
                Code("verification", Checks), Opt("tape", <<Num("id")>>)>>

Text(n, max) == Opt(n, <<Bytes("text", max)>>)
VerificationOut == <<Ver(1), Num("finding"), Code("outcome", Verdicts),
                     Bytes("name", MaxText), Bytes("version", MaxText),
                     Text("note", 2), Text("run", MaxText), Text("receipt", MaxText),
                     Text("claim", MaxText)>>
VerificationIn  == <<Ver(1), Num("finding"), Code("outcome", Verdicts),
                     Bytes("name", MaxText), Bytes("version", MaxText),
                     Text("note", 2), Text("run", MaxText), Text("receipt", MaxText),
                     Text("claim", MaxText)>>

GemelOut == <<Ver(1), Code("kind", BoundaryKinds), Num("subject"), Code("state", PublishStates),
              Code("failure", Failures), Text("state_head", MaxText), Text("head", MaxText),
              Text("intent", MaxText), Text("trajectory", MaxText), Text("producer", MaxText),
              Text("checkpoint", MaxText), Text("evidence", MaxText), Text("claim", MaxText),
              Text("residual", MaxText)>>
GemelIn  == <<Ver(1), Code("kind", BoundaryKinds), Num("subject"), Code("state", PublishStates),
              Code("failure", Failures), Text("state_head", MaxText), Text("head", MaxText),
              Text("intent", MaxText), Text("trajectory", MaxText), Text("producer", MaxText),
              Text("checkpoint", MaxText), Text("evidence", MaxText), Text("claim", MaxText),
              Text("residual", MaxText)>>

StateOut == <<Bytes("label", MaxText), Num("artifact"), Num("environment"),
              Code("termination", Terminations), Opt("signals", <<Signals("v")>>)>>
StateIn  == <<Bytes("label", MaxText), Num("artifact"), Num("environment"),
              Code("termination", Terminations), Opt("signals", <<Signals("v")>>)>>
RevisionOut == <<Ver(1), Num("tape"), Rec("earlier", StateOut), Rec("later", StateOut)>>
RevisionIn  == <<Ver(1), Num("tape"), Rec("earlier", StateIn), Rec("later", StateIn)>>

ProfileOut == <<Num("depth"), Num("axes"), Num("directions"), Num("convergence"),
                Num("change"), Flag("unknown")>>
ProfileIn  == <<Num("depth"), Num("axes"), Num("directions"), Num("convergence"),
                Num("change"), Flag("unknown")>>
RecipeOut  == <<Ver(1), Num("family"), Num("axis"), Code("expectation", Expectations),
                Num("min_count"), Num("min_run"), Num("min_bucket")>>
RecipeIn   == <<Ver(1), Num("family"), Num("axis"), Code("expectation", Expectations),
                Num("min_count"), Num("min_run"), Num("min_bucket")>>
EvidenceOut == <<Ver(1), Code("outcome", Outcomes), Num("seq"), Num("axis"), Num("moved"),
                 Num("run"), Num("bucket"), Num("execs")>>
EvidenceIn  == <<Ver(1), Code("outcome", Outcomes), Num("seq"), Num("axis"), Num("moved"),
                 Num("run"), Num("bucket"), Num("execs")>>
PrecedentOut == <<Ver(1), Num("root"), Num("mutator"), Blob("profile", 6, ProfileOut),
                  Num("roles"), Code("kind", TerminalKinds), Num("class"), Num("axis"), Num("depth"),
                  Num("reason"), OrZero("terminal"), Code("confuser", Confusers), Num("created"),
                  Num("updated"), Code("status", Statuses), OrZero("prev"), Num("supports"),
                  Num("contradictions"), Num("ambiguous"), Blob("recipe", 7, RecipeOut),
                  List("evidence", MaxEvidence, <<Blob("record", 8, EvidenceOut)>>)>>
PrecedentIn  == <<Ver(1), Num("root"), Num("mutator"), Blob("profile", 6, ProfileIn),
                  Num("roles"), Code("kind", TerminalKinds), Code("class", Classes), Num("axis"), Num("depth"),
                  Num("reason"), OrZero("terminal"), Code("confuser", Confusers), Num("created"),
                  Num("updated"), Code("status", Statuses), OrZero("prev"), Num("supports"),
                  Num("contradictions"), Num("ambiguous"), Blob("recipe", 7, RecipeIn),
                  List("evidence", MaxEvidence, <<Blob("record", 8, EvidenceIn)>>)>>

RegimeOut == <<Ver(1), Num("signal"), Num("shift"), Num("drift"), Num("drift_dwell"),
               Num("episode"), Num("recovery"), Num("recovery_dwell"), Num("max_dwell"),
               Num("onset"), Num("peak"), Num("value"), Num("deviation"), Num("close"),
               Num("dwell"), Code("by", Closes), Num("ema")>>
RegimeIn  == <<Ver(1), Num("signal"), Num("shift"), Num("drift"), Num("drift_dwell"),
               Num("episode"), Num("recovery"), Num("recovery_dwell"), Num("max_dwell"),
               Num("onset"), Num("peak"), Num("value"), Num("deviation"), Num("close"),
               Num("dwell"), Code("by", Closes), Num("ema")>>

MorphologyOut == <<Ver(1), Num("axes"), Num("directions"), Num("magnitudes"), Num("slews"),
                   Num("persistence"), Num("coactive"), Num("convergence"), Num("change"),
                   Num("stability"), Flag("unknown"), Num("depth")>>
MorphologyIn  == <<Ver(1), Num("axes"), Num("directions"), Num("magnitudes"), Num("slews"),
                   Num("persistence"), Num("coactive"), Num("convergence"), Num("change"),
                   Num("stability"), Flag("unknown"), Num("depth")>>

EpisodeOut == <<Ver(1), Num("root"), Num("mutator"), Num("open"), Num("close"), Num("peak"),
                Num("policy"), Num("axes"), Num("reasons"), Num("dwell"), Num("class"),
                Num("generation")>>
EpisodeIn  == <<Ver(1), Num("root"), Num("mutator"), Num("open"), Num("close"), Num("peak"),
                Code("policy", Policies), Num("axes"), Num("reasons"), Num("dwell"), Num("class"),
                Num("generation")>>

AxisOut == <<Num("axis"), Num("grammar"), Num("confirmed"), Num("reason"), Num("policy"),
             Num("dir"), Flag("calibrated"), Num("bin"), Num("persistence")>>
AxisIn  == <<Num("axis"), Num("grammar"), Num("confirmed"), Num("reason"), Num("policy"),
             Num("dir"), Flag("calibrated"), Num("bin"), Num("persistence")>>
VerdictOut == <<Ver(1), Num("root"), Num("mutator"), Num("depth"), Num("class"),
                Num("identity"), List("axes", MaxAxes, AxisOut)>>
VerdictIn  == <<Ver(1), Num("root"), Num("mutator"), Num("depth"), Num("class"),
                Num("identity"), List("axes", MaxAxes, AxisIn)>>

SchemaOut == <<Ver(1), List("entries", MaxAxes,
               <<Code("id", SignalIds), Name("name", MaxText), Bytes("unit", MaxText)>>)>>
SchemaIn  == <<Ver(1), List("entries", MaxAxes,
               <<Code("id", SignalIds), Name("name", MaxText), Bytes("unit", MaxText)>>)>>

CheckpointOut == <<Ver(2), Num("campaign"), Num("executions"), Num("findings"), Num("seq"),
                   Num("entries"), List("next", Most, <<Num("short"), Num("index")>>)>>
CheckpointIn  == <<Ver(2), Num("campaign"), Num("executions"), Num("findings"), Num("seq"),
                   Num("entries"), List("next", Most, <<Num("short"), Num("index")>>)>>

-----------------------------------------------------------------------------
Layouts ==
  [frame        |-> <<FrameOut, FrameIn>>,               order      |-> <<OrderOut, OrderIn>>,
   result       |-> <<ResultOut, ResultIn>>,             hello      |-> <<HelloOut, HelloIn>>,
   object       |-> <<ObjectOut, ObjectIn>>,             finding    |-> <<FindingOut, FindingIn>>,
   meta         |-> <<MetaOut, MetaIn>>,                 tape       |-> <<TapeOut, TapeIn>>,
   witness      |-> <<WitnessOut, WitnessIn>>,           gemel      |-> <<GemelOut, GemelIn>>,
   verification |-> <<VerificationOut, VerificationIn>>, revision   |-> <<RevisionOut, RevisionIn>>,
   precedent    |-> <<PrecedentOut, PrecedentIn>>,       regime     |-> <<RegimeOut, RegimeIn>>,
   morphology   |-> <<MorphologyOut, MorphologyIn>>,     episode    |-> <<EpisodeOut, EpisodeIn>>,
   verdict      |-> <<VerdictOut, VerdictIn>>,           schema     |-> <<SchemaOut, SchemaIn>>,
   checkpoint   |-> <<CheckpointOut, CheckpointIn>>]

Writes(fmt) == Layouts[fmt][1]
Reads(fmt)  == Layouts[fmt][2]

(* The checks between fields: an order must ask for something; a schema    *)
(* names each signal once.                                                 *)
Distinct(entries) == \A i, j \in DOMAIN entries : entries[i].id = entries[j].id => i = j
Sends(fmt, v) ==
  /\ FitsIn(Writes(fmt), v)
  /\ fmt = "order"  => v.count > 0 \/ v.override # <<>>
  /\ fmt = "schema" => Distinct(v.entries)
Reading(fmt, w) == GetAll(Reads(fmt), Cursor(w))

(* The readers of frames and of checkpoints do not ask whether anything    *)
(* follows; a checkpoint of another version is read as an empty one.       *)
Streams == {"frame", "checkpoint"}
Empty(w) == w = <<>> \/ Head(w) # 2

Receives(fmt, w) ==
  IF fmt = "checkpoint" /\ Empty(w) THEN [ok |-> TRUE, v |-> [next |-> <<>>]]
  ELSE LET r == IF fmt \in Streams THEN Reading(fmt, w) ELSE Get(Reads(fmt), w)
       IN  [ok |-> r.ok /\ (fmt = "schema" => Distinct(r.v.entries)), v |-> r.v]
=============================================================================
