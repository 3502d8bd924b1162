----------------------------- MODULE ManagedCanvas -----------------------------
(***************************************************************************)
(* From a canvas to a prompt: the canvas and the graph exported from it,   *)
(* the revision they are frozen into, its validations against an executor  *)
(* whose nodes and models change, and the prompt that is submitted for it; *)
(* and beside them a run of the preview template.  The validations of the  *)
(* API (workflow.ts) and of the worker (generation.ts) ask the executor,   *)
(* then write what they found, so they can overtake one another.           *)
(*                                                                         *)
(* The canvas and the graph are edited apart from one another: the editor  *)
(* serialises both, but a client of the API may send any two graphs.       *)
(***************************************************************************)
EXTENDS TemplateCompiler, MediaEvaluator

CONSTANTS
  CanvasEdits,    \* widgets set on the canvas: node, named key, position or both, value
  ApiEdits,       \* inputs set in the exported graph: node, input, value
  ExtraNode,      \* nodes that may appear in either graph, by identifier
  Droppable,      \* nodes that may be deleted from either graph
  Installed,      \* what the executor answers to GET /object_info at first
  Executors,      \* what it may answer later
  TemplateInputs, \* parameters of a template run
  Manifests,      \* manifests it may be compiled with
  Blemishes,      \* fields of a clip that come out otherwise than rendered
  MaxChanges      \* bound: edits, exports and changes of the executor

(* Extra nodes are nodes.  A blemish is one: what it changes, the size and  *)
(* the length apart, is not as an evaluation wants it.  A manifest is the   *)
(* shipped one, or one with something missing, repeated or misspelt: what   *)
(* the compiler cannot tell is a binding to another input that exists.      *)
ASSUME CanvasAssumption ==
  /\ DOMAIN ExtraNode \subseteq Int
  /\ \A i \in DOMAIN ExtraNode : ExtraNode[i] = Node(ExtraNode[i].class, ExtraNode[i].inputs)
  /\ \A b \in Blemishes :
       /\ DOMAIN b \subseteq {"bytes", "sha", "size", "container", "video", "width", "height",
                            "rate", "duration", "decodes", "says"}
       /\ "bytes" \in DOMAIN b => b.bytes = "empty"
       /\ "sha" \in DOMAIN b => b.sha = FALSE
       /\ "size" \in DOMAIN b => b.size = FALSE
       /\ "container" \in DOMAIN b => b.container # "mp4"
       /\ "video" \in DOMAIN b => b.video = FALSE
       /\ "rate" \in DOMAIN b => ~ RunsAt(b.rate, Fps)
       /\ "duration" \in DOMAIN b => b.duration \in Nat
       /\ "decodes" \in DOMAIN b => b.decodes = FALSE
       /\ "says" \in DOMAIN b => ~ HasMotionEvidence(b.says)
  /\ \A m \in Manifests :
       /\ m \in [required : Seq(Int \X STRING),
                 bindings : Seq([name : STRING, id : Int, class : STRING, path : Seq(STRING)])]
       /\ \A b \in Range(m.bindings) :
            b.name \in SemanticNames /\ IsInput(FIXTURE_WORKFLOW, b.id, b.path) =>
              \E shipped \in Range(FIXTURE_MANIFEST.bindings) :
                shipped.name = b.name /\ shipped.id = b.id /\ shipped.path = b.path

VARIABLES
  editor,      \* the canvas: shape, nodes, nested nodes
  api,         \* the exported graph: shape, nodes
  info,        \* what the executor answers
  revision,    \* workflow_revisions: the graphs, the verdict, its fingerprint
  pending,     \* validations that have asked the executor and not yet written
  attempt,     \* the revision's attempt: its row, and how far a worker is with it
  template,    \* the template run: its parameters, its manifest and the result
  changes      \* changes so far

vars == <<editor, api, info, revision, pending, attempt, template, changes>>

None == [none |-> TRUE]
Validator == {"api", "worker"}

-----------------------------------------------------------------------------
(* The pinned canvas, and what its serialisation exports (external).       *)

EditorNode(id, type, named, widgets) ==
  [id |-> id, type |-> type, named |-> named, widgets |-> widgets, broken |-> {}]
Plain(id, type) == EditorNode(id, type, <<>>, <<>>)

PinnedSettings ==
  EditorNode(140, Subgraph,
    [ prompt |-> Txt("a product"), width |-> Num(960), height |-> Num(544),
      value_1 |-> Seconds(500), noise_seed |-> Num(42),
      unet_name |-> Txt(ModelFile["diffusionModel"]),
      clip_name |-> Txt(ModelFile["textEncoder"]),
      vae_name |-> Txt(ModelFile["videoVae"]), vae_name_1 |-> Txt(ModelFile["audioVae"]),
      value |-> Flag(FALSE) ],
    << Txt("a product"), Num(960), Num(544), Seconds(500), Num(42),
       Txt(ModelFile["diffusionModel"]), Txt(ModelFile["textEncoder"]),
       Txt(ModelFile["videoVae"]), Txt(ModelFile["audioVae"]), Flag(FALSE) >>)

PinnedNested ==
  << Plain(119, "VAELoader"), Plain(121, "VAEDecodeAudio"), Plain(122, "VAEDecode"),
     Plain(123, "KSamplerSelect"), Plain(124, "BasicScheduler"),
     Plain(125, "SamplerCustomAdvanced"), Plain(126, "BasicGuider"),
     Plain(127, "UNETLoader"), Plain(128, "CLIPLoader"), Plain(129, "RandomNoise"),
     EditorNode(130, "CreateVideo", [fps |-> Num(24)], <<Num(24)>>),
     EditorNode(131, "MiniMaxH3ImageToVideo",
       [prompt |-> Txt("a product"), width |-> Num(960), height |-> Num(544),
        length |-> Num(124)],
       <<Txt("a product"), Num(960), Num(544), Num(124)>>),
     EditorNode(137, "PrimitiveInt", [value |-> Num(20)], <<Num(20)>>),
     EditorNode(138, "PrimitiveInt", [value |-> Num(6)], <<Num(6)>>) >>

PinnedEditor ==
  [ shape |-> "object",
    nodes |-> << EditorNode(92, "SaveVideo", [filename_prefix |-> Txt("video/MiniMax_H3")],
                            <<Txt("video/MiniMax_H3")>>),
                 Plain(116, "MarkdownNote"), PinnedSettings >>,
    nested |-> PinnedNested ]

NodeOf(g, id) == CHOOSE n \in Range(AllNodes(g)) : n.id = id
Shown(g, id, position) == NodeOf(g, id).widgets[position + 1]

(* The ComfyMathExpression of the canvas: round(24 d), snapped up to 17k + 5. *)
CanvasFrames(h) ==
  LET r == Max({5, (Fps * h + 50) \div 100}) IN r + ((5 - (r % 17)) % 17)

With(node, inputs) == [node EXCEPT !.inputs = Over(inputs, @)]

(* app.graphToPrompt: the promoted widgets flow into the nodes, and the    *)
(* switch of the turbo mode takes the other branch.                        *)
Exported(g) ==
  LET turbo == Shown(g, 140, 9) = Flag(TRUE)
      steps == Shown(g, IF turbo THEN 138 ELSE 137, 0)
      model == IF turbo THEN Link(134, 0) ELSE Link(127, 0)
      Promoted(i) ==
        CASE i = 92 -> [filename_prefix |-> Shown(g, 92, 0)]
          [] i = 119 -> [vae_name |-> Shown(g, 140, 7)]
          [] i = 120 -> [vae_name |-> Shown(g, 140, 8)]
          [] i = 124 -> [steps |-> steps, model |-> model]
          [] i = 126 -> [model |-> model]
          [] i = 127 -> [unet_name |-> Shown(g, 140, 5)]
          [] i = 128 -> [clip_name |-> Shown(g, 140, 6)]
          [] i = 129 -> [noise_seed |-> Shown(g, 140, 4)]
          [] i = 130 -> [fps |-> Shown(g, 130, 0)]
          [] i = 131 -> [prompt |-> Shown(g, 140, 0), width |-> Shown(g, 140, 1),
                         height |-> Shown(g, 140, 2),
                         length |-> Num(CanvasFrames(Shown(g, 140, 3).hundredths))]
          [] OTHER -> <<>>
      lora == IF turbo THEN {134} ELSE {}
  IN [ shape |-> "object",
       nodes |-> [i \in DOMAIN FIXTURE_WORKFLOW \cup lora |->
                    IF i \in lora THEN Node("LoraLoaderModelOnly", [model |-> Link(127, 0)])
                    ELSE With(FIXTURE_WORKFLOW[i], Promoted(i))] ]

-----------------------------------------------------------------------------
(* What an executor makes of a graph (external), read from its output     *)
(* backwards along the links and not by the classes of the nodes.  A place *)
(* is the node an input leads to, as a set of at most one; the same input  *)
(* may be reached at several places.                                       *)
Behind(g, place, input, slot) ==
  LET v == InputOf(g, place, input)
  IN IF IsConnection(v) /\ v.link[2] = slot /\ v.link[1] \in DOMAIN g THEN {v.link[1]} ELSE {}
AllBehind(g, places, input, slot) == {Behind(g, place, input, slot) : place \in places}
InputsOf(g, places, input) == {InputOf(g, place, input) : place \in places}

(* The inputs at which a parameter of a run takes effect. *)
Taps(g, output, f) ==
  LET video == Behind(g, {output}, "video", 0)
      pictures == Behind(g, video, "images", 0)
      sound == Behind(g, video, "audio", 0)
      samplers == AllBehind(g, {pictures, sound}, "samples", 0)
      guiders == AllBehind(g, samplers, "guider", 0)
      schedulers == AllBehind(g, samplers, "sigmas", 0)
      h3 == AllBehind(g, samplers, "latent_image", 1) \cup AllBehind(g, guiders, "conditioning", 0)
  IN CASE f \in {"prompt", "width", "height"} -> InputsOf(g, h3, f)
       [] f = "frames" -> InputsOf(g, h3, "length")
       [] f = "seed" -> InputsOf(g, AllBehind(g, samplers, "noise", 0), "noise_seed")
       [] f = "steps" -> InputsOf(g, schedulers, "steps")
       [] f = "fps" -> InputsOf(g, {video}, "fps")
       [] f = "outputPrefix" -> InputsOf(g, {{output}}, "filename_prefix")
       [] f = "diffusionModel" ->
            InputsOf(g, AllBehind(g, guiders \cup schedulers, "model", 0), "unet_name")
       [] f = "textEncoder" -> InputsOf(g, AllBehind(g, h3, "clip", 0), "clip_name")
       [] f = "videoVae" -> InputsOf(g, AllBehind(g, {pictures} \cup h3, "vae", 0), "vae_name")
       [] f = "audioVae" -> InputsOf(g, AllBehind(g, {sound}, "vae", 0), "vae_name")

Outputs(g) == OfClass(g, "SaveVideo")

MadeBy(g, f) == {Literal(v) : v \in UNION {Taps(g, output, f) : output \in Outputs(g)}}
Makes(g, f, value) == MadeBy(g, f) \subseteq {value}
Made(g, f) == CHOOSE v \in MadeBy(g, f) : TRUE

(* The clip it renders of a graph that was found valid. *)
Rendered(g) ==
  LET fps == Made(g, "fps").num IN
  [ bytes |-> "whole", sha |-> TRUE, size |-> TRUE, container |-> "mp4",
    video |-> TRUE, width |-> Made(g, "width").num, height |-> Made(g, "height").num,
    rate |-> <<fps, 1>>, duration |-> (Ticks * Made(g, "frames").num) \div fps,
    audio |-> TRUE, decodes |-> TRUE, says |-> {} ]

-----------------------------------------------------------------------------

Init ==
  /\ editor = PinnedEditor
  /\ api = Exported(PinnedEditor)
  /\ info = Installed
  /\ revision = None
  /\ pending = [v \in Validator |-> None]
  /\ attempt = None
  /\ template = None
  /\ changes = 0

Change == changes < MaxChanges /\ changes' = changes + 1

(* The canvas and the exported graph change until they are frozen. *)
EditGraphs ==
  /\ Change /\ revision = None /\ template = None
  /\ UNCHANGED <<info, revision, pending, attempt, template>>

OnNodes(g, F(_)) ==
  [g EXCEPT !.nodes = [i \in DOMAIN @ |-> F(@[i])], !.nested = [i \in DOMAIN @ |-> F(@[i])]]

(* A widget edited on the canvas changes at both places it is kept at. *)
SetWidget(e) ==
  LET Set(n) == IF n.id # e.id THEN n
                ELSE [n EXCEPT !.named = Over([k \in {e.key} |-> e.value], @),
                               !.widgets = IF e.both /\ e.position + 1 \in DOMAIN @
                                           THEN [@ EXCEPT ![e.position + 1] = e.value]
                                           ELSE @]
  IN OnNodes(editor, Set)

EditCanvas(e) ==
  /\ EditGraphs
  /\ \E n \in Range(AllNodes(editor)) : n.id = e.id
  /\ editor' = SetWidget(e)
  /\ UNCHANGED api

DropCanvasNode(id) ==
  LET Stays(n) == n.id # id IN
  /\ EditGraphs
  /\ \E n \in Range(AllNodes(editor)) : n.id = id
  /\ editor' = [editor EXCEPT !.nodes = SelectSeq(@, Stays), !.nested = SelectSeq(@, Stays)]
  /\ UNCHANGED api

AddCanvasNode(n) ==
  /\ EditGraphs
  /\ editor' = [editor EXCEPT !.nodes = Append(@, n)]
  /\ UNCHANGED api

(* The canvas of a client that is no editor: a node, or a list of its     *)
(* widgets, that is not of its type, or a whole canvas that is not.       *)
BreakNode(id, part) ==
  LET Broken(n) == IF n.id = id THEN [n EXCEPT !.broken = @ \cup {part}] ELSE n IN
  /\ EditGraphs
  /\ editor' = OnNodes(editor, Broken)
  /\ UNCHANGED api

BreakCanvas(shape) ==
  /\ EditGraphs
  /\ editor' = [editor EXCEPT !.shape = shape]
  /\ UNCHANGED api

Complete(g) == {n.id : n \in Range(AllNodes(PinnedEditor))}
                 \subseteq {n.id : n \in Range(AllNodes(g))}

Export ==
  /\ EditGraphs
  /\ Complete(editor) /\ Is("hundredths", Shown(editor, 140, 3))
  /\ api' = Exported(editor)
  /\ UNCHANGED editor

SetInput(e) ==
  /\ EditGraphs
  /\ e.id \in DOMAIN api.nodes
  /\ api' = [api EXCEPT !.nodes[e.id].inputs = Over([k \in {e.input} |-> e.value], @)]
  /\ UNCHANGED editor

PutApiNode(id, n) ==
  /\ EditGraphs
  /\ api' = [api EXCEPT !.nodes = Over([i \in {id} |-> n], @)]
  /\ UNCHANGED editor

DropApiNode(id) ==
  /\ EditGraphs
  /\ id \in DOMAIN api.nodes
  /\ api' = [api EXCEPT !.nodes = Restrict(@, DOMAIN @ \ {id})]
  /\ UNCHANGED editor

(* Nodes and models come and go with a restart of the executor. *)
ExecutorChanges(answer) ==
  /\ Change /\ answer # info /\ template = None
  /\ info' = answer
  /\ UNCHANGED <<editor, api, revision, pending, attempt, template>>

-----------------------------------------------------------------------------
(* Revisions *)

(* createWorkflowRevisionInTransaction: validate, then store both graphs,  *)
(* the execution parameters and the verdict.                               *)
CreateRevision ==
  LET v == Validation(editor, api, TRUE, info, TRUE) IN
  /\ revision = None /\ template = None
  /\ revision' = [editor |-> editor, api |-> api, parameters |-> v.effective,
                  valid |-> v.valid, fingerprint |-> v.fingerprint]
  /\ UNCHANGED <<editor, api, info, pending, attempt, template, changes>>

-----------------------------------------------------------------------------
(* The attempt: parameters, intent (the submission intent is durable),      *)
(* prompt (what was POSTed, and what the executor had answered before),     *)
(* failureCode and result are its rows; its state is what a worker is at    *)
(* with it, and fingerprint what that worker read.                          *)

InHand == {"claimed", "read", "intended", "submitted", "refused"}

(* h3_validate_managed_attempt, the trigger before every write of the row:  *)
(* an attempt whose revision is not valid keeps the row it has.             *)
Writable == revision.valid

(* createManagedAttemptInTransaction: the attempt records the execution    *)
(* parameters of a revision that is valid now.                             *)
QueueAttempt ==
  /\ revision # None /\ attempt = None
  /\ Writable /\ Defined(revision.parameters)
  /\ attempt' = [ state |-> "waiting", parameters |-> revision.parameters, intent |-> FALSE,
                  fingerprint |-> None, failureCode |-> "none", prompt |-> None,
                  result |-> None ]
  /\ UNCHANGED <<editor, api, info, revision, pending, template, changes>>

At(state) == attempt # None /\ attempt.state = state
Advance(next) ==
  /\ attempt' = next
  /\ UNCHANGED <<editor, api, info, revision, pending, template, changes>>

GoesTo(state) == [attempt EXCEPT !.state = state]
(* About to call failAttempt with this code. *)
RefusedWith(code) == [attempt EXCEPT !.state = "refused", !.failureCode = code]

(* claimNext, or claimForRecovery of an attempt whose worker has gone. *)
Claim == At("waiting") /\ Writable /\ Advance(GoesTo("claimed"))

(* The revision is read; no longer valid, it refuses the attempt. *)
ReadRevision ==
  /\ At("claimed")
  /\ \/ /\ revision.valid
        /\ Advance([attempt EXCEPT !.state = "read", !.fingerprint = revision.fingerprint])
     \/ ~ revision.valid /\ Advance(RefusedWith("CAPABILITY_DRIFT"))

RecordIntent ==
  /\ At("read") /\ ~ attempt.intent /\ Writable
  /\ Advance([attempt EXCEPT !.state = "intended", !.intent = TRUE])

(* An attempt that is recovered: the history knows its prompt, or it is     *)
(* refused, whether it was never sent or the executor has lost it.          *)
LookUp ==
  /\ At("read") /\ attempt.intent
  /\ \/ attempt.prompt # None /\ Advance(GoesTo("submitted"))
     \/ Advance(RefusedWith("COMFY_SUBMISSION_UNCERTAIN"))

(* failAttempt, when its write is let through. *)
Refuse == At("refused") /\ Writable /\ Advance(GoesTo("failed"))

(* A crash; also a write that the trigger refuses, the heartbeat's or one   *)
(* of the steps here: nothing catches it.  The rows stay as they are.       *)
WorkerDies ==
  /\ attempt # None /\ attempt.state \in InHand
  /\ attempt' = [attempt EXCEPT !.state = "waiting", !.fingerprint = None,
                                !.failureCode = "none"]
  /\ pending' = [pending EXCEPT !["worker"] = None]
  /\ UNCHANGED <<editor, api, info, revision, template, changes>>

(* The first half of a validation of the stored revision: the executor is  *)
(* asked and the verdict found.  The worker compares the fingerprint with  *)
(* the one it read.                                                        *)
Asks(v) ==
  /\ pending[v] = None
  /\ v = "worker" => At("intended")

Drifted(v, found) ==
  v = "worker" /\ Defined(attempt.fingerprint) /\ found.fingerprint # attempt.fingerprint

StartValidation(v) ==
  LET found == Validation(revision.editor, revision.api, TRUE, info, TRUE)
  IN /\ revision # None /\ Asks(v)
     /\ pending' = [pending EXCEPT ![v] = [ valid |-> found.valid /\ ~ Drifted(v, found),
                                            fingerprint |-> found.fingerprint, asked |-> info ]]
     /\ UNCHANGED <<editor, api, info, revision, attempt, template, changes>>

(* Mutant: the inputs of the graph are spread over the prefix. *)
NormalizedUnlessSet(g, prefix) ==
  [i \in DOMAIN Nodes(g) |->
     IF Nodes(g)[i].class = "SaveVideo"
     THEN [Nodes(g)[i] EXCEPT !.inputs = Over(@, [filename_prefix |-> prefix])]
     ELSE Nodes(g)[i]]

(* normalizeManagedWorkflow *)
Normalized(g, prefix) ==
  [i \in DOMAIN Nodes(g) |->
     IF Nodes(g)[i].class = "SaveVideo" THEN With(Nodes(g)[i], [filename_prefix |-> prefix])
     ELSE Nodes(g)[i]]

AttemptPrefix == Txt("videoops/attempt-1")

(* The POST of a graph found valid; a later change of the verdict does not  *)
(* keep the prompt from being sent, only from being recorded.               *)
Submitted(asked) ==
  [ attempt EXCEPT !.state = "submitted",
                   !.prompt = [nodes |-> Normalized(revision.api, AttemptPrefix),
                               asked |-> asked] ]

AfterVerdict(v) ==
  IF v = "api" THEN attempt
  ELSE IF pending[v].valid THEN Submitted(pending[v].asked) ELSE RefusedWith("CAPABILITY_DRIFT")

(* Mutant: the verdict is written and the fingerprint is left as it was. *)
FinishValidationOfVerdict(v) ==
  /\ pending[v] # None
  /\ revision' = [revision EXCEPT !.valid = pending[v].valid]
  /\ attempt' = AfterVerdict(v)
  /\ pending' = [pending EXCEPT ![v] = None]
  /\ UNCHANGED <<editor, api, info, template, changes>>

(* updateValidation, whose trigger lets the verdict change at any time; the *)
(* worker then goes on to submit, or refuses the attempt.                   *)
FinishValidation(v) ==
  /\ pending[v] # None
  /\ revision' = [revision EXCEPT !.valid = pending[v].valid,
                                  !.fingerprint = pending[v].fingerprint]
  /\ attempt' = AfterVerdict(v)
  /\ pending' = [pending EXCEPT ![v] = None]
  /\ UNCHANGED <<editor, api, info, template, changes>>

(* What the worker expects of every artifact: PREVIEW_WIDTH,               *)
(* PREVIEW_HEIGHT and previewDurationSeconds, and the evaluator's defaults. *)
Preview == [width |-> 960, height |-> 544, duration |-> 5 * Ticks,
            tolerance |-> Ticks \div 4, fps |-> 24]

(* finishSuccess: the clip the executor made of the prompt is stored as    *)
(* the attempt's artifact and evaluated; verdict, artifact and attempt are *)
(* one transaction, which the trigger lets through or not.                 *)
FinishSuccess(clip, written, read) ==
  LET found == Evaluation(clip, Preview, written, read)
  IN Advance([attempt EXCEPT
                !.state = IF found.status = "passed" THEN "awaiting_review" ELSE "failed",
                !.failureCode = found.code,
                !.result = [clip |-> clip, written |-> written, read |-> read,
                            evaluation |-> found]])

Finish ==
  /\ At("submitted") /\ Writable
  /\ LET rendered == Rendered(attempt.prompt.nodes) IN
     \E blemish \in Blemishes :
       LET clip == Over(blemish, Over(rendered, [blemish |-> blemish])) IN
       \/ \E read \in ToolRuns(clip) : FinishSuccess(clip, TRUE, read)
       \/ FinishSuccess(clip, FALSE, ReadWhole(clip))

(* evaluationFailureCode: the code of a verdict that is read back. *)
EvaluationFailureCode(checks) ==
  LET code == FirstFailureCode(checks) IN IF code = "none" THEN "MEDIA_DECODE_FAILED" ELSE code

(* compileWorkflow for an attempt from the template. *)
CompileTemplate(input, manifest) ==
  /\ template = None /\ changes = 0 /\ revision = None
  /\ template' = [ input |-> input, result |-> Compile(input, FIXTURE_WORKFLOW, manifest) ]
  /\ UNCHANGED <<editor, api, info, revision, pending, attempt, changes>>

Next ==
  \/ \E e \in CanvasEdits : EditCanvas(e)
  \/ \E id \in Droppable : DropCanvasNode(id) \/ DropApiNode(id)
  \/ \E id \in DOMAIN ExtraNode : AddCanvasNode(Plain(id, ExtraNode[id].class))
  \/ \E n \in Range(PinnedEditor.nodes), part \in {"node", "named", "widgets"} :
       BreakNode(n.id, part)
  \/ \E shape \in {"not an object", "too big"} : BreakCanvas(shape)
  \/ Export
  \/ \E e \in ApiEdits : SetInput(e)
  \/ \E id \in DOMAIN ExtraNode : PutApiNode(id, ExtraNode[id])
  \/ \E answer \in Executors : ExecutorChanges(answer)
  \/ CreateRevision \/ QueueAttempt
  \/ Claim \/ ReadRevision \/ RecordIntent \/ LookUp \/ Refuse \/ WorkerDies
  \/ \E v \in Validator : StartValidation(v) \/ FinishValidation(v)
  \/ Finish
  \/ \E input \in TemplateInputs, manifest \in Manifests : CompileTemplate(input, manifest)

Spec == Init /\ [][Next]_vars

-----------------------------------------------------------------------------
(* Properties *)

Local == Validation(editor, api, TRUE, NotAsked, FALSE)
Canvas == EditorValues(Kept(editor))

(* Frames that show a duration: the fewest on the grid that cover it. *)
Covers(frames, h) ==
  /\ 100 * frames >= Fps * h
  /\ frames = 5 \/ 100 * (frames - 17) < Fps * h

(* Graphs that are found valid have one output, and along every path to it  *)
(* an executor meets what the canvas shows: the same prompt for picture    *)
(* and sound, the same seed, the pinned models, and the fewest frames that *)
(* cover the duration.  validateMinimaxH3T2vaPreview looks nodes up by     *)
(* their classes and checks wires one by one; it never follows the graph.  *)
RunsAsShown ==
  (revision = None /\ Local.valid) =>
    LET g == Nodes(api)
        canvas == Canvas
        frames == ApiValues(api).frames
    IN /\ Cardinality(Outputs(g)) = 1
       /\ \A f \in ComparedFields : Makes(g, f, canvas[f])
       /\ Makes(g, "frames", frames)
       /\ FiniteDuration(canvas.duration) => Covers(frames.num, Hundredths(canvas.duration))

HoldsWidgets(n, pinned) ==
  /\ n.id = pinned.id /\ n.type = pinned.type /\ n.broken = {}
  /\ DOMAIN pinned.named \subseteq DOMAIN n.named
  /\ DOMAIN n.widgets = DOMAIN pinned.widgets
  /\ \A i \in DOMAIN n.widgets : Defined(n.widgets[i])

(* The canvas holds the pinned nodes with their widgets, values the profile *)
(* allows, and a duration of whole frames.                                 *)
WithinProfile ==
  LET canvas == Canvas
      all == AllNodes(editor)
      pinned == AllNodes(PinnedEditor)
  IN /\ EditorReads(editor)
     /\ DOMAIN all = DOMAIN pinned /\ \A i \in DOMAIN all : HoldsWidgets(all[i], pinned[i])
     /\ Disagreeing(Kept(editor)) = {}
     /\ ValidPrompt(canvas.prompt) /\ ValidDimensions(canvas.width, canvas.height)
     /\ ValidSeed(canvas.seed) /\ ValidOutputPrefix(canvas.outputPrefix)
     /\ canvas.steps = Num(DefaultSteps) /\ Shown(editor, 137, 0) = canvas.steps
     /\ canvas.fps = Num(Fps) /\ canvas.turbo = Flag(FALSE)
     /\ \A f \in ModelFields : canvas[f] = Txt(ModelFile[f])
     /\ Is("hundredths", canvas.duration) /\ canvas.duration.hundredths \in 1 .. MaxDuration
     /\ (Fps * canvas.duration.hundredths) % 100 = 0

(* What the canvas exports while it stays within the profile passes every  *)
(* check at once, and has the effective parameters a run is recorded with. *)
ExportIsValid ==
  (revision = None /\ WithinProfile /\ api = Exported(editor)) =>
    LET found == Local IN found.valid /\ Defined(found.effective)

(* The verdict and the fingerprint stored with a revision are of the same  *)
(* answer of the executor, however validations of the API and of the       *)
(* worker overtake one another: a revision that is valid was seen with     *)
(* every class and model its graph needs.                                  *)
VerdictFitsFingerprint ==
  (revision # None /\ revision.valid) =>
    /\ {Nodes(revision.api)[i].class : i \in DOMAIN Nodes(revision.api)}
         \subseteq revision.fingerprint.classes
    /\ \A f \in ModelFields : ModelFile[f] \in revision.fingerprint.choices[Loader[f]]

(* The prompt a worker has submitted makes what its attempt records (size, *)
(* duration, seed and steps), under the attempt's own prefix, from models  *)
(* that the executor listed when the worker asked it, whatever has been    *)
(* found of the revision and by whom the attempt was recovered since.      *)
SubmittedAsRecorded ==
  (attempt # None /\ attempt.prompt # None) =>
    LET g == attempt.prompt.nodes IN
    /\ Makes(g, "outputPrefix", AttemptPrefix)
    /\ \A f \in (ComparedFields \cup {"frames"}) \ {"outputPrefix"} :
         Makes(g, f, attempt.parameters[f])
    /\ Covers(attempt.parameters.frames.num, Hundredths(attempt.parameters.duration))
    /\ \A f \in ModelFields : Lists(attempt.prompt.asked, f)

Evaluated == attempt # None /\ attempt.result # None
Heard == attempt.result.read.says = attempt.result.clip.says
Undisturbed == attempt.result.written /\ attempt.result.read = ReadWhole(attempt.result.clip)
Reviewed == attempt.state = "awaiting_review"
Measures == {"width", "height", "duration"}

(* A clip gets to a reviewer without a technical blemish, unless what the  *)
(* detectors said of it was lost, and with the preview's size and length.  *)
(* A clip that is what its prompt asks for, whose tools all ran to their   *)
(* end and were heard, and whose result could be committed, gets there if  *)
(* and only if the attempt records the preview, 124 frames being the only  *)
(* length of the grid within the tolerance; what else the attempt records, *)
(* the evaluation never reads.  A verdict read back from its row has the   *)
(* code it was given first.                                                *)
OnlyPreviewsAreReviewed ==
  Evaluated =>
    LET clip == attempt.result.clip
        asked == attempt.parameters
        preview == /\ asked.width.num = 960 /\ asked.height.num = 544
                   /\ asked.frames.num = 124
    IN /\ Reviewed =>
            /\ DOMAIN clip.blemish \subseteq Measures \cup (IF Heard THEN {} ELSE {"says"})
            /\ clip.width = 960 /\ clip.height = 544
            /\ 4 * Distance(clip.duration, 5 * Ticks) <= Ticks
       /\ (clip.blemish = <<>> /\ Undisturbed) => (Reviewed <=> preview)
       /\ ~ Reviewed =>
            attempt.failureCode = EvaluationFailureCode(attempt.result.evaluation.checks)

(* Not an invariant of the code (see the README): what an attempt asks for *)
(* and the executor makes is reviewed.  Every size and duration the        *)
(* profile allows but the preview's fails the evaluation.                  *)
WhatWasAskedForIsReviewed ==
  (Evaluated /\ attempt.result.clip.blemish = <<>> /\ Undisturbed) => Reviewed

(* Nor is this one: the process runner resolves at ffmpeg's exit, before   *)
(* the rest of its output may have been read.                              *)
BlackIsNotReviewed == (Evaluated /\ attempt.result.clip.says # {}) => ~ Reviewed

MakesInput(g, input) ==
  /\ WiringIssues(g) = {}
  /\ Makes(g, "prompt", Txt(input.prompt)) /\ Makes(g, "seed", Num(input.seed))
  /\ Makes(g, "steps", Num(input.steps))
  /\ Makes(g, "width", Num(input.width)) /\ Makes(g, "height", Num(input.height))
  /\ \E frames \in 24 .. 240 : /\ Makes(g, "frames", Num(frames))
                              /\ 100 * frames - Fps * input.duration \in -50 .. 50

(* A compiled template makes what was asked for: each parameter reaches    *)
(* every place it takes effect at, and the frames are the nearest to the   *)
(* duration; a manifest that could leave one behind is refused.            *)
TemplateMakesInput ==
  (template # None /\ template.result.error = "none") =>
    MakesInput(template.result.workflow, template.input)

-----------------------------------------------------------------------------
(* Why it holds: the inductive invariant of the proofs.                     *)

IsNode(n) == n = Node(n.class, n.inputs)

GraphIsSound(g) ==
  /\ g = [shape |-> g.shape, nodes |-> g.nodes]
  /\ DOMAIN g.nodes \subseteq Int /\ IsFiniteSet(DOMAIN g.nodes)
  /\ \A i \in DOMAIN g.nodes : IsNode(g.nodes[i])

(* What an executor with this answer makes of the stored revision. *)
Found(asked) == Validation(revision.editor, revision.api, TRUE, asked, TRUE)

RevisionIsSound ==
  revision # None =>
    /\ DOMAIN revision = {"editor", "api", "parameters", "valid", "fingerprint"}
    /\ GraphIsSound(revision.api)
    /\ revision.parameters = EffectiveParameters(EditorValues(Kept(revision.editor)),
                                                 ApiValues(revision.api))

(* A verdict that is not yet written is of the stored graphs and of the     *)
(* answer its validation got, and no attempt moves on before its worker's.  *)
PendingIsSound ==
  \A v \in Validator : pending[v] # None =>
    /\ revision # None
    /\ pending[v].valid => Found(pending[v].asked).valid
    /\ pending[v].fingerprint = Fingerprint(pending[v].asked)
    /\ v = "worker" => At("intended")

(* An attempt keeps the revision's parameters; its prompt is the revision's *)
(* graph, found valid; and only a result ends its evaluation.               *)
AttemptIsSound ==
  attempt # None =>
    /\ revision # None
    /\ DOMAIN attempt = {"state", "parameters", "intent", "fingerprint", "failureCode",
                         "prompt", "result"}
    /\ attempt.parameters = revision.parameters /\ Defined(attempt.parameters)
    /\ attempt.state = "submitted" => attempt.prompt # None
    /\ attempt.prompt # None =>
         /\ attempt.prompt.nodes = Normalized(revision.api, AttemptPrefix)
         /\ Found(attempt.prompt.asked).valid
    /\ attempt.result # None => attempt.state \in {"awaiting_review", "failed"}

IInv ==
  /\ pending = [v \in Validator |-> pending[v]]
  /\ GraphIsSound(api)
  /\ RevisionIsSound /\ PendingIsSound /\ AttemptIsSound
  /\ VerdictFitsFingerprint
  /\ OnlyPreviewsAreReviewed
================================================================================
