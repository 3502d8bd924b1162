------------------------------- MODULE H3Profile -------------------------------
(***************************************************************************)
(* The managed profile minimax-h3-t2va-preview: what validates the graph   *)
(* of the ComfyUI canvas (the editor graph) against the prompt exported    *)
(* from it (the API graph) and against what the executor offers.           *)
(*                                                                         *)
(* A JSON value is a record whose only field says what it is, so that      *)
(* values of different types compare as different.  A message of the       *)
(* code's list of errors is told apart by its code and by what it is       *)
(* about; the list holds no message twice, so it is a set here.            *)
(***************************************************************************)
EXTENDS Integers, Sequences, FiniteSets, FiniteSetsExt, Functions, SequencesExt

Num(n)        == [num |-> n]
Seconds(h)    == [hundredths |-> h]   \* a duration, in 1/100 s
Txt(t)        == [txt |-> t]
Flag(b)       == [flag |-> b]
Link(id, out) == [link |-> <<id, out>>]
Wrapped(v)    == [value |-> v]        \* an object with the key __value__
BadList       == [list |-> "not a connection"]
Undefined     == [undefined |-> TRUE]

Is(kind, v) == DOMAIN v = {kind}
IsInteger(v) == Is("num", v) /\ v.num \in Int
Defined(v) == v # Undefined

Subgraph == "79dd8a95-ce9d-4c14-b264-2162e8bec5ce"

RequiredClasses ==
  { "UNETLoader", "CLIPLoader", "VAELoader", "MiniMaxH3ImageToVideo", "RandomNoise",
    "BasicScheduler", "KSamplerSelect", "BasicGuider", "SamplerCustomAdvanced",
    "VAEDecode", "VAEDecodeAudio", "CreateVideo", "SaveVideo" }

AllowedApiClasses == RequiredClasses \cup {"LoraLoaderModelOnly"}

AllowedEditorTypes ==
  AllowedApiClasses \cup { Subgraph, "ResolutionSelector", "MarkdownNote",
    "ComfyMathExpression", "PrimitiveFloat", "ComfySwitchNode", "PrimitiveInt",
    "PrimitiveBoolean" }

ModelFields == {"diffusionModel", "textEncoder", "videoVae", "audioVae"}
ModelFile == [f \in ModelFields |->
  CASE f = "diffusionModel" -> "minimax_h3_fl2va_pruned_int8_convrot"
    [] f = "textEncoder"    -> "qwen3vl_32b_minimax_h3_nvfp4_awq"
    [] f = "videoVae"       -> "minimax_h3_video_vae_fp16"
    [] f = "audioVae"       -> "minimax_h3_audio_vae_fp32"]

Fps == 24
DefaultSteps == 20

Issue(code, about) == [code |-> code, about |-> about]
Unless(holds, code, about) == IF holds THEN {} ELSE {Issue(code, about)}

-----------------------------------------------------------------------------
(* The editor graph: nodes and the nodes of its subgraphs, in order.  A    *)
(* node: identifier, type, named and positional widget values, and which   *)
(* of its parts are "broken": the node itself or its lists of widgets.     *)

NodeParses(n) == "node" \notin n.broken /\ n.type # ""
Named(n) == IF "named" \in n.broken THEN <<>> ELSE n.named
Positional(n) == IF "widgets" \in n.broken THEN <<>> ELSE n.widgets

AllNodes(g) == g.nodes \o g.nested
EditorReads(g) == g.shape = "object" /\ g.nodes # <<>>

(* The nodes that are kept, by their positions: of those with the same     *)
(* identifier, the first.                                                  *)
Kept(g) ==
  LET all == AllNodes(g)
      Seen(i) == {j \in DOMAIN all : j < i /\ NodeParses(all[j]) /\ all[j].id = all[i].id}
  IN IF EditorReads(g)
     THEN Restrict(all, {i \in DOMAIN all : NodeParses(all[i]) /\ Seen(i) = {}})
     ELSE <<>>

ParseEditorIssues(g) ==
  IF ~ EditorReads(g) THEN {Issue("GRAPH_SCHEMA_INVALID", <<"editor", g.shape>>)}
  ELSE LET all == Range(AllNodes(g))
           parsed == {n \in all : NodeParses(n)}
           Twice(n) == Cardinality({i \in DOMAIN AllNodes(g) :
                         AllNodes(g)[i].id = n.id /\ NodeParses(AllNodes(g)[i])}) > 1
       IN Unless(parsed = all, "GRAPH_SCHEMA_INVALID", <<"editor", "a node">>)
          \cup {Issue("GRAPH_SCHEMA_INVALID", <<"duplicated", n.id>>) : n \in {k \in parsed : Twice(k)}}
          \cup UNION {{Issue("GRAPH_SCHEMA_INVALID", <<n.type, part>>) : part \in n.broken} :
                        n \in parsed}
          \cup {Issue("UNSAFE_NODE", <<"editor", n.type>>) :
                  n \in {k \in parsed : k.type \notin AllowedEditorTypes}}

(* The first of the nodes that has the property, as a sequence of at most one. *)
FirstNode(nodes, Test(_)) ==
  LET found == {i \in DOMAIN nodes : Test(nodes[i])}
  IN IF found = {} THEN <<>> ELSE <<nodes[Min(found)]>>

ValidateEditorNodeClasses(nodes) ==
  {Issue("NODE_CLASS_MISSING", <<"editor", c>>) :
     c \in RequiredClasses \ {nodes[i].type : i \in DOMAIN nodes}}

(* One widget: the first named key the node has, else the position. *)
WidgetKey(n, keys) == {i \in DOMAIN keys : keys[i] \in DOMAIN Named(n)}
AtPosition(n, index) ==
  IF index + 1 \in DOMAIN Positional(n) THEN Positional(n)[index + 1] ELSE Undefined
NamedValue(n, keys) == Named(n)[keys[Min(WidgetKey(n, keys))]]

WidgetValue(n, keys, index) ==
  IF WidgetKey(n, keys) # {} THEN NamedValue(n, keys) ELSE AtPosition(n, index)

WidgetAgrees(n, keys, index) ==
  \/ WidgetKey(n, keys) = {}
  \/ ~ Defined(AtPosition(n, index))
  \/ NamedValue(n, keys) = AtPosition(n, index)

(* findSettingsNode: the promoted subgraph, else the H3 node, else any. *)
SettingsNode(nodes) ==
  LET HasPrompt(n) == "prompt" \in DOMAIN Named(n)
      promoted == FirstNode(nodes, LAMBDA n : n.type = Subgraph /\ HasPrompt(n))
      direct == FirstNode(nodes, LAMBDA n : n.type = "MiniMaxH3ImageToVideo" /\ HasPrompt(n))
  IN IF promoted # <<>> THEN promoted
     ELSE IF direct # <<>> THEN direct
     ELSE FirstNode(nodes, HasPrompt)

(* The widgets editorValues reads of the settings node: keys and position. *)
NoPosition == -1
SettingsWidgets(settings) ==
  LET promoted == settings.type = Subgraph IN
  [ prompt         |-> << <<"prompt">>, 0>>,
    width          |-> << <<"width">>, 1>>,
    height         |-> << <<"height">>, 2>>,
    duration       |-> << <<"value_1", "duration", "durationSeconds">>,
                          IF promoted THEN 3 ELSE NoPosition>>,
    frames         |-> << <<"length">>, IF promoted THEN NoPosition ELSE 3>>,
    seed           |-> << <<"noise_seed", "seed">>, 4>>,
    diffusionModel |-> << <<"unet_name", "diffusion_model">>, 5>>,
    textEncoder    |-> << <<"clip_name", "text_encoder">>, 6>>,
    videoVae       |-> << <<"vae_name", "video_vae">>, 7>>,
    audioVae       |-> << <<"vae_name_1", "audio_vae">>, 8>>,
    turbo          |-> << <<"value", "turbo_mode", "turbo">>, 9>>,
    steps          |-> << <<"steps">>, NoPosition>> ]

OutputNode(nodes) == FirstNode(nodes, LAMBDA n : n.type = "SaveVideo")
VideoNode(nodes) == FirstNode(nodes, LAMBDA n : n.type = "CreateVideo")
StepNodes(nodes) == Restrict(nodes, {i \in DOMAIN nodes : nodes[i].type = "PrimitiveInt"})

(* Of what is read, the nodes whose named and positional values disagree. *)
Disagreeing(nodes) ==
  {n \in Range(SettingsNode(nodes)) : \E f \in DOMAIN SettingsWidgets(n) :
     ~ WidgetAgrees(n, SettingsWidgets(n)[f][1], SettingsWidgets(n)[f][2])}
  \cup {n \in Range(OutputNode(nodes)) : ~ WidgetAgrees(n, <<"filename_prefix">>, 0)}
  \cup {n \in Range(VideoNode(nodes)) : ~ WidgetAgrees(n, <<"fps">>, 0)}
  \cup {n \in Range(StepNodes(nodes)) : ~ WidgetAgrees(n, <<"value">>, 0)}

(* The step count of the canvas: 20 if a PrimitiveInt has it, else the first. *)
PrimitiveSteps(nodes) ==
  LET steps == StepNodes(nodes)
      value == [i \in DOMAIN steps |-> WidgetValue(steps[i], <<"value">>, 0)]
      whole == {i \in DOMAIN value : IsInteger(value[i])}
  IN IF whole = {} THEN Undefined
     ELSE IF Num(DefaultSteps) \in Range(value) THEN Num(DefaultSteps)
     ELSE value[Min(whole)]

EditorFields ==
  {"prompt", "width", "height", "duration", "frames", "seed", "turbo", "steps", "fps",
   "outputPrefix"} \cup ModelFields

EditorValues(nodes) ==
  IF SettingsNode(nodes) = <<>> THEN [f \in EditorFields |-> Undefined]
  ELSE LET s == SettingsNode(nodes)[1]
           widgets == SettingsWidgets(s)
           Read(f) == WidgetValue(s, widgets[f][1], widgets[f][2])
           Of(node, key) == IF node = <<>> THEN Undefined ELSE WidgetValue(node[1], <<key>>, 0)
       IN [f \in EditorFields |->
             CASE f = "fps" -> Of(VideoNode(nodes), "fps")
               [] f = "outputPrefix" -> Of(OutputNode(nodes), "filename_prefix")
               [] f = "steps" -> IF Defined(Read(f)) THEN Read(f) ELSE PrimitiveSteps(nodes)
               [] f = "frames" -> IF Defined(Read("duration")) THEN Undefined ELSE Read(f)
               [] OTHER -> Read(f)]

EditorIssues(g) ==
  LET nodes == Kept(g) IN
  ParseEditorIssues(g)
  \cup IF ~ EditorReads(g) THEN {}
       ELSE ValidateEditorNodeClasses(nodes)
            \cup IF SettingsNode(nodes) = <<>>
                 THEN {Issue("PARAMETER_MISMATCH", <<"no parameter node">>)}
                 ELSE {Issue("GRAPH_EXPORT_MISMATCH", <<"widgets of", n.type>>) :
                         n \in Disagreeing(nodes)}

-----------------------------------------------------------------------------
(* The API graph: nodes by identifier, a class and inputs each.  A node    *)
(* without a class or inputs has the class "".                             *)

ApiReads(g) == g.shape = "object"
Nodes(g) == IF ApiReads(g) THEN Restrict(g.nodes, {i \in DOMAIN g.nodes : g.nodes[i].class # ""})
            ELSE <<>>
Inputs(node) == {node.inputs[i] : i \in DOMAIN node.inputs}
IsConnection(v) == Is("link", v)

ParseApiIssues(g) ==
  IF ~ ApiReads(g) THEN {Issue("GRAPH_SCHEMA_INVALID", <<"api", g.shape>>)}
  ELSE LET api == Nodes(g) IN
       {Issue("GRAPH_SCHEMA_INVALID", <<"api node", i>>) : i \in DOMAIN g.nodes \ DOMAIN api}
       \cup {Issue("UNSAFE_NODE", <<"api", c>>) :
               c \in {api[i].class : i \in DOMAIN api} \ AllowedApiClasses}
       \cup {Issue("GRAPH_SCHEMA_INVALID", <<"link of", api[i].class>>) :
               i \in {j \in DOMAIN api : BadList \in Inputs(api[j])}}
       \cup {Issue("OUTPUT_CONTRACT_INVALID", <<"dangling", api[i].class>>) :
               i \in {j \in DOMAIN api : \E v \in Inputs(api[j]) :
                        IsConnection(v) /\ v.link[1] \notin DOMAIN api}}

OfClass(api, class) == {i \in DOMAIN api : api[i].class = class}

(* oneApiNode: the first of the class, as a set of at most one identifier. *)
OneNode(api, class) ==
  IF OfClass(api, class) = {} THEN {} ELSE {Min(OfClass(api, class))}

OnePerClass == RequiredClasses \ {"VAELoader"}

InputOf(api, ids, name) ==
  IF \E i \in ids : name \in DOMAIN api[i].inputs
  THEN api[CHOOSE i \in ids : TRUE].inputs[name] ELSE Undefined

(* literalInput *)
Literal(v) == IF IsConnection(v) THEN Undefined ELSE IF Is("value", v) THEN v.value ELSE v
LiteralIssues(api, ids, name) ==
  LET v == InputOf(api, ids, name)
  IN Unless(Defined(v), "PARAMETER_MISMATCH", <<"missing", name>>)
     \cup Unless(~ IsConnection(v), "PARAMETER_MISMATCH", <<"not a literal", name>>)

(* The literal inputs apiValues reads: the class of the node and the name. *)
LiteralInputs ==
  [ prompt         |-> <<"MiniMaxH3ImageToVideo", "prompt">>,
    width          |-> <<"MiniMaxH3ImageToVideo", "width">>,
    height         |-> <<"MiniMaxH3ImageToVideo", "height">>,
    frames         |-> <<"MiniMaxH3ImageToVideo", "length">>,
    seed           |-> <<"RandomNoise", "noise_seed">>,
    steps          |-> <<"BasicScheduler", "steps">>,
    fps            |-> <<"CreateVideo", "fps">>,
    diffusionModel |-> <<"UNETLoader", "unet_name">>,
    textEncoder    |-> <<"CLIPLoader", "clip_name">>,
    outputPrefix   |-> <<"SaveVideo", "filename_prefix">> ]

(* A VAE is known by the pinned file it loads; the values unwrap the name, *)
(* the wiring does not.                                                    *)
VaeNames(api) == {Literal(InputOf(api, {i}, "vae_name")) : i \in OfClass(api, "VAELoader")}
VaeValue(api, field) ==
  IF Txt(ModelFile[field]) \in VaeNames(api) THEN Txt(ModelFile[field]) ELSE Undefined
VaeNode(api, field) ==
  LET of == {i \in OfClass(api, "VAELoader") :
               InputOf(api, {i}, "vae_name") = Txt(ModelFile[field])}
  IN IF of = {} THEN {} ELSE {Min(of)}

ApiFields == DOMAIN LiteralInputs \cup {"turbo", "videoVae", "audioVae"}

ApiValues(g) ==
  LET api == Nodes(g) IN
  [f \in ApiFields |->
     IF ~ ApiReads(g) THEN Undefined
     ELSE CASE f = "turbo" -> Flag(FALSE)
            [] f \in {"videoVae", "audioVae"} -> VaeValue(api, f)
            [] OTHER -> Literal(InputOf(api, OneNode(api, LiteralInputs[f][1]),
                                        LiteralInputs[f][2]))]

ApiValueIssues(api) ==
  {Issue("NODE_CLASS_MISSING", <<"api", c>>) :
     c \in {d \in OnePerClass : Cardinality(OfClass(api, d)) # 1}}
  \cup Unless(Cardinality(OfClass(api, "VAELoader")) = 2, "NODE_CLASS_MISSING", <<"api", "VAELoader">>)
  \cup UNION {LiteralIssues(api, {i}, "vae_name") : i \in OfClass(api, "VAELoader")}
  \cup Unless(\A f \in {"videoVae", "audioVae"} : Defined(VaeValue(api, f)),
              "MODEL_MISSING", <<"api", "VAE">>)
  \cup Unless(\A name \in {"first_frame", "last_frame"} :
                ~ Defined(InputOf(api, OneNode(api, "MiniMaxH3ImageToVideo"), name)),
              "PARAMETER_MISMATCH", <<"frame inputs">>)
  \cup UNION {LiteralIssues(api, OneNode(api, LiteralInputs[f][1]), LiteralInputs[f][2]) :
                f \in DOMAIN LiteralInputs}

(* validateWiring: node, input, the node it must come from, and its slot. *)
Wires(api) ==
  LET One(class) == OneNode(api, class)
      sampler == One("SamplerCustomAdvanced")
      h3 == One("MiniMaxH3ImageToVideo")
      video == VaeNode(api, "videoVae")
  IN { <<sampler, "noise", One("RandomNoise"), 0>>,
       <<sampler, "guider", One("BasicGuider"), 0>>,
       <<sampler, "sampler", One("KSamplerSelect"), 0>>,
       <<sampler, "sigmas", One("BasicScheduler"), 0>>,
       <<sampler, "latent_image", h3, 1>>,
       <<One("BasicGuider"), "conditioning", h3, 0>>,
       <<One("BasicGuider"), "model", One("UNETLoader"), 0>>,
       <<One("BasicScheduler"), "model", One("UNETLoader"), 0>>,
       <<h3, "clip", One("CLIPLoader"), 0>>,
       <<h3, "vae", video, 0>>,
       <<One("VAEDecode"), "samples", sampler, 0>>,
       <<One("VAEDecodeAudio"), "samples", sampler, 0>>,
       <<One("VAEDecode"), "vae", video, 0>>,
       <<One("VAEDecodeAudio"), "vae", VaeNode(api, "audioVae"), 0>>,
       <<One("CreateVideo"), "images", One("VAEDecode"), 0>>,
       <<One("CreateVideo"), "audio", One("VAEDecodeAudio"), 0>>,
       <<One("SaveVideo"), "video", One("CreateVideo"), 0>> }

(* Mutant: the slot of a connection is not compared. *)
ConnectedAtAnySlot(api, w) ==
  LET v == InputOf(api, w[1], w[2]) IN IsConnection(v) /\ v.link[1] \in w[3]

Connected(api, w) == \E source \in w[3] : InputOf(api, w[1], w[2]) = Link(source, w[4])

WiringIssues(api) ==
  {Issue("OUTPUT_CONTRACT_INVALID", <<"wiring", w[2]>>) :
     w \in {r \in Wires(api) : ~ Connected(api, r)}}
  \cup Unless(OfClass(api, "LoraLoaderModelOnly") = {}, "PARAMETER_MISMATCH", <<"LoRA">>)

ApiIssues(g) ==
  ParseApiIssues(g) \cup
  IF ApiReads(g) THEN ApiValueIssues(Nodes(g)) \cup WiringIssues(Nodes(g)) ELSE {}

-----------------------------------------------------------------------------
(* The effective parameters *)

CeilDiv(a, b) == -((-a) \div b)

(* durationToFrames, 17 * ceil((24 d - 5) / 17) + 5, of 1/100 s *)
MaxDuration == 1500
(* Mutant: the 5 leading frames are counted twice. *)
FramesOfWholeBlocks(h) ==
  IF h <= 0 \/ h > MaxDuration THEN Undefined ELSE Num(17 * CeilDiv(Fps * h, 1700) + 5)

FramesOf(h) ==
  IF h <= 0 \/ h > MaxDuration THEN Undefined
  ELSE Num(17 * CeilDiv(Fps * h - 500, 1700) + 5)

OnGrid(v) == IsInteger(v) /\ v.num >= 5 /\ (v.num - 5) % 17 = 0

SizeAllowed(w, h) ==
  /\ w > 0 /\ h > 0 /\ w % 32 = 0 /\ h % 32 = 0
  /\ Min({w, h}) <= 768 /\ Max({w, h}) <= 1344
  /\ w * h <= 768 * 1344
ValidDimensions(w, h) == IsInteger(w) /\ IsInteger(h) /\ SizeAllowed(w.num, h.num)

(* Strings: blank and too long ones, and prefixes that are not safe. *)
BlankText == ""
LongText == "more than 32000 characters"
UnsafePrefix == "/etc/.."
ValidPrompt(v) == Is("txt", v) /\ v.txt \notin {BlankText, LongText}
ValidOutputPrefix(v) == Is("txt", v) /\ v.txt \notin {BlankText, LongText, UnsafePrefix}
ValidSeed(v) == IsInteger(v) /\ v.num >= 0
FiniteDuration(v) == IsInteger(v) \/ (Is("hundredths", v) /\ v.hundredths \in Int)
Hundredths(v) == IF Is("num", v) THEN 100 * v.num ELSE v.hundredths

ExpectedFrames(editor) ==
  IF FiniteDuration(editor.duration) THEN FramesOf(Hundredths(editor.duration))
  ELSE editor.frames

Differs(l, r) == Defined(l) /\ Defined(r) /\ l # r

ComparedFields == {"prompt", "width", "height", "seed", "steps", "fps", "outputPrefix"}
                  \cup ModelFields

ValueIssues(editor, api) ==
  LET frames == ExpectedFrames(editor) IN
  Unless(ValidPrompt(editor.prompt) /\ ValidPrompt(api.prompt), "PARAMETER_MISMATCH", <<"prompt">>)
  \cup Unless(ValidDimensions(editor.width, editor.height), "DIMENSION_INVALID", <<"editor">>)
  \cup Unless(ValidDimensions(api.width, api.height), "DIMENSION_INVALID", <<"api">>)
  \cup Unless(OnGrid(api.frames), "DURATION_GRID_INVALID", <<"api">>)
  \cup Unless(api.fps = Num(Fps), "PARAMETER_MISMATCH", <<"fps", "api">>)
  \cup Unless(editor.fps = Num(Fps), "PARAMETER_MISMATCH", <<"fps", "editor">>)
  \cup Unless(editor.steps = Num(DefaultSteps) /\ api.steps = Num(DefaultSteps),
              "PARAMETER_MISMATCH", <<"steps">>)
  \cup Unless(editor.turbo = Flag(FALSE) /\ api.turbo = Flag(FALSE), "PARAMETER_MISMATCH", <<"turbo">>)
  \cup Unless(ValidSeed(api.seed), "PARAMETER_MISMATCH", <<"seed", "api">>)
  \cup Unless(ValidSeed(editor.seed), "PARAMETER_MISMATCH", <<"seed", "editor">>)
  \cup Unless(OnGrid(frames), "DURATION_GRID_INVALID", <<"editor">>)
  \cup Unless(~ Differs(frames, api.frames), "GRAPH_EXPORT_MISMATCH", <<"frame length">>)

ComparisonIssues(editor, api) ==
  {Issue("GRAPH_EXPORT_MISMATCH", <<f>>) :
     f \in {c \in ComparedFields : Differs(editor[c], api[c])}}
  \cup {Issue("MODEL_MISSING", <<"editor", f>>) :
          f \in {c \in ModelFields : editor[c] # Txt(ModelFile[c])}}
  \cup {Issue("MODEL_MISSING", <<"api", f>>) :
          f \in {c \in ModelFields : api[c] # Txt(ModelFile[c])}}
  \cup Unless(ValidOutputPrefix(editor.outputPrefix), "OUTPUT_CONTRACT_INVALID", <<"prefix", "editor">>)
  \cup Unless(ValidOutputPrefix(api.outputPrefix), "OUTPUT_CONTRACT_INVALID", <<"prefix", "api">>)

(* What a run of the API graph is told to make; Undefined without a        *)
(* duration in seconds, whatever the frames say.                           *)
EffectiveParameters(editor, api) ==
  IF /\ ValidPrompt(api.prompt) /\ ValidDimensions(api.width, api.height)
     /\ OnGrid(api.frames) /\ ValidSeed(api.seed)
     /\ api.fps = Num(Fps) /\ api.steps = Num(DefaultSteps) /\ api.turbo = Flag(FALSE)
     /\ ValidOutputPrefix(api.outputPrefix)
     /\ \A f \in ModelFields : api[f] = Txt(ModelFile[f])
     /\ FiniteDuration(editor.duration) /\ Defined(ExpectedFrames(editor))
  THEN [f \in ApiFields \cup {"duration"} |->
          IF f = "duration" THEN editor.duration ELSE api[f]]
  ELSE Undefined

-----------------------------------------------------------------------------
(* The executor: the names each of its node classes lists.  NoAnswer is an *)
(* object_info that is not an object, NotAsked the absence of one.         *)

Answer(offers) == [kind |-> "answer", offers |-> offers]
NoAnswer == [kind |-> "no answer", offers |-> <<>>]
NotAsked == [kind |-> "not asked", offers |-> <<>>]

Loader == [f \in ModelFields |->
  CASE f = "diffusionModel" -> "UNETLoader" [] f = "textEncoder" -> "CLIPLoader"
    [] OTHER -> "VAELoader"]

Offers(info, class) == class \in DOMAIN info.offers
Lists(info, f) == ModelFile[f] \in info.offers[Loader[f]]

ExecutorIssues(info) ==
  IF info.kind # "answer" THEN {Issue("EXECUTOR_UNAVAILABLE", <<>>)}
  ELSE LET issues ==
             {Issue("NODE_CLASS_MISSING", <<"executor", c>>) :
                c \in {r \in RequiredClasses : ~ Offers(info, r)}}
             \cup {Issue("MODEL_MISSING", <<"executor", f>>) :
                     f \in {m \in ModelFields : Offers(info, Loader[m]) /\ ~ Lists(info, m)}}
       IN issues \cup Unless(issues = {}, "CAPABILITY_DRIFT", <<"profile">>)

(* minimaxH3ExecutorFingerprint: equal shapes have equal hashes. *)
Fingerprint(info) ==
  IF info.kind # "answer" THEN Undefined
  ELSE [ classes |-> DOMAIN info.offers \cap RequiredClasses,
         choices |-> [c \in Range(Loader) |->
                        IF Offers(info, c) THEN info.offers[c] ELSE {}] ]

(* validateMinimaxH3T2vaPreview *)
Validation(editorGraph, apiGraph, pinned, info, requireExecutor) ==
  LET editor == EditorValues(Kept(editorGraph))
      api == ApiValues(apiGraph)
      errors ==
        Unless(pinned, "PROFILE_UNSUPPORTED", <<>>)
        \cup EditorIssues(editorGraph) \cup ApiIssues(apiGraph)
        \cup ValueIssues(editor, api) \cup ComparisonIssues(editor, api)
        \cup IF info.kind # "not asked" THEN ExecutorIssues(info)
             ELSE Unless(~ requireExecutor, "EXECUTOR_UNAVAILABLE", <<>>)
  IN [ valid |-> errors = {}, errors |-> errors,
       effective |-> EffectiveParameters(editor, api), fingerprint |-> Fingerprint(info) ]
================================================================================
