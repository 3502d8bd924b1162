-------------------------------- MODULE MCCanvas --------------------------------
(* An instance of ManagedCanvas for TLC. *)
EXTENDS ManagedCanvas

Edit(id, key, position, v, both) ==
  [id |-> id, key |-> key, position |-> position, value |-> v, both |-> both]
Widget(id, key, position, values) == {Edit(id, key, position, v, TRUE) : v \in values}

(* Durations: on the grid (3.75 s), of whole frames, one that rounds down  *)
(* onto the grid (5.17 s), tiny, the longest, too long and none at all.    *)
SomeCanvasEdits ==
  UNION { Widget(140, "prompt", 0, {Txt("tea"), Txt("")}),
          {Edit(140, "width", 1, Num(1344), FALSE)},
          Widget(140, "width", 1, {Num(1344), Num(1000)}),
          Widget(140, "height", 2, {Num(1344)}),
          Widget(140, "value_1", 3,
                 {Seconds(h) : h \in {375, 500, 517, 10, 1500, 1525}} \cup {Txt("5")}),
          Widget(140, "noise_seed", 4, {Num(7), Num(-1)}),
          Widget(140, "unet_name", 5, {Txt("other")}),
          Widget(140, "vae_name_1", 8, {Txt(ModelFile["videoVae"])}),
          Widget(140, "value", 9, {Flag(TRUE)}),
          Widget(92, "filename_prefix", 0, {Txt("tea"), Txt(UnsafePrefix)}),
          Widget(130, "fps", 0, {Num(30)}),
          Widget(137, "value", 0, {Num(30)}),
          Widget(138, "value", 0, {Num(20)}) }

(* Inputs of the API graph: each link bent to another node or slot, each   *)
(* literal changed, and those of each way a literal is read wrapped.       *)
Bent(v) == IF v.link[1] = 131 THEN {Link(131, 1 - v.link[2])}
           ELSE IF v.link[1] = 127 THEN {Link(1, 0), BadList} ELSE {Link(120, 0)}
Changed(name, v) ==
  IF Is("num", v) THEN {Num(v.num + (IF v.num = 124 THEN 17 ELSE 32))}
  ELSE {Txt("tea")} \cup (IF name \in {"prompt", "vae_name"} THEN {Wrapped(v)} ELSE {})
SomeApiEdits ==
  UNION {UNION {{[id |-> i, input |-> name, value |-> w] :
                   w \in LET v == FIXTURE_WORKFLOW[i].inputs[name]
                         IN IF IsConnection(v) THEN Bent(v) ELSE Changed(name, v)} :
                  name \in DOMAIN FIXTURE_WORKFLOW[i].inputs} : i \in DOMAIN FIXTURE_WORKFLOW}
  \cup {[id |-> 131, input |-> "first_frame", value |-> Link(119, 0)]}

SomeExtraNodes ==
  116 :> Node("SaveImage", <<>>) @@ 140 :> Node("", <<>>)
  @@ 141 :> Node("SaveVideo", [video |-> Link(130, 0), filename_prefix |-> Txt("tea")])
  @@ 119 :> Node("VAELoader", [vae_name |-> Txt("other")])
  @@ 142 :> Node("VAELoader", [vae_name |-> Txt("other")])

SomeDroppable == {92, 116, 122, 131, 137, 140}

Offer == [c \in RequiredClasses |->
  CASE c = "UNETLoader" -> {ModelFile["diffusionModel"]}
    [] c = "CLIPLoader" -> {ModelFile["textEncoder"]}
    [] c = "VAELoader"  -> {ModelFile["videoVae"], ModelFile["audioVae"]}
    [] OTHER -> {}]
PinnedExecutor == Answer(Offer)
SomeExecutors ==
  { NoAnswer, Answer(Offer), Answer([Offer EXCEPT !["VAELoader"] = @ \cup {"another"}]),
    Answer([Offer EXCEPT !["VAELoader"] = {ModelFile["videoVae"]}]),
    Answer(Restrict(Offer, RequiredClasses \ {"VAEDecodeAudio"})) }

SomeTemplateInputs ==
  [prompt : {"tea", ""}, width : {960, 544}, height : {544}, duration : {99, 100, 456, 500, 1000, 1001},
   seed : {-7, 7}, steps : {0, 1, 100, 101}]

Rebound(i, b) == [FIXTURE_MANIFEST EXCEPT !.bindings[i] = b]
SomeManifests ==
  LET b == FIXTURE_MANIFEST.bindings IN
  { FIXTURE_MANIFEST, Rebound(5, b[6]), Rebound(2, [b[2] EXCEPT !.name = "length"]),
    Rebound(1, [b[1] EXCEPT !.path = <<>>]), Rebound(1, [b[1] EXCEPT !.path = <<"inputs", "text">>]),
    Rebound(5, [b[5] EXCEPT !.id = 200]), Rebound(5, [b[5] EXCEPT !.class = "KSampler"]),
    [FIXTURE_MANIFEST EXCEPT !.bindings = SubSeq(b, 1, 5)],
    [FIXTURE_MANIFEST EXCEPT !.required[4] = <<93, "SaveVideo">>],
    [FIXTURE_MANIFEST EXCEPT !.required[4] = <<92, "SaveImage">>] }

(* Clips: as rendered; of the width or length of the preview, though asked *)
(* otherwise or not; too short; damaged; black.  One of 15 s is too long.  *)
SomeBlemishes ==
  { <<>>, [video |-> FALSE], [width |-> 960], [duration |-> 5 * Ticks], [duration |-> 4 * Ticks], [decodes |-> FALSE],
    [says |-> {"black_duration"}] }
================================================================================
