---------------------------- MODULE TemplateCompiler ----------------------------
(***************************************************************************)
(* The compiler of the preview template: the shipped API graph, a manifest *)
(* that says which inputs the parameters of a run go to, and the checks    *)
(* compileWorkflow makes before it binds them.  Graphs and JSON values are *)
(* those of H3Profile.  A check is a record of whether it holds and the    *)
(* code it throws; the checks come in groups, and the first that does not  *)
(* hold ends the compilation.                                              *)
(***************************************************************************)
EXTENDS H3Profile, TLC

Node(class, inputs) == [class |-> class, inputs |-> inputs]

FIXTURE_WORKFLOW == [i \in {92} \cup 119 .. 131 |->
  CASE i = 92 -> Node("SaveVideo", [video |-> Link(130, 0), filename_prefix |-> Txt("video/MiniMax_H3")])
    [] i = 119 -> Node("VAELoader", [vae_name |-> Txt(ModelFile["videoVae"])])
    [] i = 120 -> Node("VAELoader", [vae_name |-> Txt(ModelFile["audioVae"])])
    [] i = 121 -> Node("VAEDecodeAudio", [samples |-> Link(125, 0), vae |-> Link(120, 0)])
    [] i = 122 -> Node("VAEDecode", [samples |-> Link(125, 0), vae |-> Link(119, 0)])
    [] i = 123 -> Node("KSamplerSelect", [sampler_name |-> Txt("res_multistep")])
    [] i = 124 -> Node("BasicScheduler", [model |-> Link(127, 0), steps |-> Num(20)])
    [] i = 125 -> Node("SamplerCustomAdvanced",
              [noise |-> Link(129, 0), guider |-> Link(126, 0), sampler |-> Link(123, 0),
               sigmas |-> Link(124, 0), latent_image |-> Link(131, 1)])
    [] i = 126 -> Node("BasicGuider", [model |-> Link(127, 0), conditioning |-> Link(131, 0)])
    [] i = 127 -> Node("UNETLoader", [unet_name |-> Txt(ModelFile["diffusionModel"])])
    [] i = 128 -> Node("CLIPLoader", [clip_name |-> Txt(ModelFile["textEncoder"])])
    [] i = 129 -> Node("RandomNoise", [noise_seed |-> Num(42)])
    [] i = 130 -> Node("CreateVideo", [images |-> Link(122, 0), audio |-> Link(121, 0), fps |-> Num(24)])
    [] i = 131 -> Node("MiniMaxH3ImageToVideo",
              [clip |-> Link(128, 0), vae |-> Link(119, 0), prompt |-> Txt("a product"),
               width |-> Num(960), height |-> Num(544), length |-> Num(124)])]

Binding(name, id, class, field) ==
  [name |-> name, id |-> id, class |-> class, path |-> <<"inputs", field>>]

FIXTURE_MANIFEST ==
  [ required |-> << <<124, "BasicScheduler">>, <<129, "RandomNoise">>,
                    <<131, "MiniMaxH3ImageToVideo">>, <<92, "SaveVideo">> >>,
    bindings |-> << Binding("prompt", 131, "MiniMaxH3ImageToVideo", "prompt"),
                    Binding("width", 131, "MiniMaxH3ImageToVideo", "width"),
                    Binding("height", 131, "MiniMaxH3ImageToVideo", "height"),
                    Binding("durationFrames", 131, "MiniMaxH3ImageToVideo", "length"),
                    Binding("seed", 129, "RandomNoise", "noise_seed"),
                    Binding("steps", 124, "BasicScheduler", "steps") >> ]

SemanticNames == {"prompt", "width", "height", "durationFrames", "seed", "steps"}

-----------------------------------------------------------------------------

Check(holds, code) == [holds |-> holds, code |-> code]
Failing(checks) == {i \in DOMAIN checks : ~ checks[i].holds}
FirstCode(groups) ==
  LET failing == {i \in DOMAIN groups : Failing(groups[i]) # {}}
      first == groups[Min(failing)]
  IN IF failing = {} THEN "none" ELSE first[Min(Failing(first))].code

HasNode(workflow, id) == id \in DOMAIN workflow
IsOfClass(workflow, id, class) == HasNode(workflow, id) /\ workflow[id].class = class
IsInput(workflow, id, path) ==
  /\ Len(path) = 2 /\ path[1] = "inputs"
  /\ HasNode(workflow, id) /\ path[2] \in DOMAIN workflow[id].inputs

BindingChecks(workflow, bindings, i) ==
  LET b == bindings[i] IN
  << Check(\A j \in 1 .. i - 1 : bindings[j].name # b.name, "INVALID_WORKFLOW"),
     Check(b.name \in SemanticNames, "INVALID_WORKFLOW"),
     Check(b.path # <<>>, "MISSING_BINDING"),
     Check(HasNode(workflow, b.id), "MISSING_NODE"),
     Check(IsOfClass(workflow, b.id, b.class), "MISMATCHED_NODE_CLASS"),
     Check(IsInput(workflow, b.id, b.path), "MISSING_BINDING_PATH") >>

RequiredChecks(workflow, r) ==
  << Check(HasNode(workflow, r[1]), "MISSING_NODE"),
     Check(IsOfClass(workflow, r[1], r[2]), "MISMATCHED_NODE_CLASS") >>

AllRequired(workflow, manifest) ==
  [i \in DOMAIN manifest.required |-> RequiredChecks(workflow, manifest.required[i])]
AllBindings(workflow, manifest) ==
  [i \in DOMAIN manifest.bindings |-> BindingChecks(workflow, manifest.bindings, i)]

(* Mutant: a manifest need not bind every parameter. *)
ManifestChecksOfPresent(workflow, manifest) ==
  AllRequired(workflow, manifest) \o AllBindings(workflow, manifest)

ManifestChecks(workflow, manifest) ==
  LET bound == {manifest.bindings[i].name : i \in DOMAIN manifest.bindings}
  IN << <<Check(\A id \in DOMAIN workflow : workflow[id].class # "", "INVALID_WORKFLOW")>> >>
     \o AllRequired(workflow, manifest) \o AllBindings(workflow, manifest)
     \o << <<Check(SemanticNames \subseteq bound, "MISSING_BINDING")>> >>

(* durationToFrames of the template: round(24 d), of 1/100 s. *)
TemplateFrames(h) == (Fps * h + 50) \div 100
DurationAllowed(h) == h \in 100 .. 1000

InputChecks(input) ==
  << Check(input.prompt # BlankText, "INVALID_PARAMETER"),
     Check(input.steps \in 1 .. 100, "INVALID_PARAMETER"),
     Check(input.width = 960 /\ input.height = 544, "INVALID_PREVIEW_DIMENSIONS"),
     Check(DurationAllowed(input.duration), "INVALID_DURATION_GRID") >>

SemanticValue(input, name) ==
  CASE name = "prompt"         -> Txt(input.prompt)
    [] name = "width"          -> Num(input.width)
    [] name = "height"         -> Num(input.height)
    [] name = "durationFrames" -> Num(TemplateFrames(input.duration))
    [] name = "seed"           -> Num(input.seed)
    [] name = "steps"          -> Num(input.steps)

(* The bindings that set an input of a node. *)
Setting(manifest, id, field) ==
  {i \in DOMAIN manifest.bindings : /\ manifest.bindings[i].id = id
                                    /\ manifest.bindings[i].path[2] = field}

(* setBinding of each binding in turn, on the copy cloneWorkflow made: an  *)
(* input has the value of the last binding that sets it.                   *)
Bound(workflow, manifest, input) ==
  LET Value(id, field) ==
        LET setting == Setting(manifest, id, field)
        IN IF setting = {} THEN workflow[id].inputs[field]
           ELSE SemanticValue(input, manifest.bindings[Max(setting)].name)
  IN [id \in DOMAIN workflow |->
        Node(workflow[id].class,
             [field \in DOMAIN workflow[id].inputs |-> Value(id, field)])]

(* compileWorkflow *)
Compile(input, workflow, manifest) ==
  LET error == FirstCode(<<InputChecks(input)>> \o ManifestChecks(workflow, manifest))
  IN [ error |-> error,
       workflow |-> IF error = "none" THEN Bound(workflow, manifest, input) ELSE <<>> ]
================================================================================
