-------------------------- MODULE ManagedCanvas_proofs --------------------------
(***************************************************************************)
(* What the profile accepts: theorems about ManagedCanvas, for canvases,   *)
(* graphs and executors of any size.                                       *)
(*                                                                         *)
(* The profile finds nodes by their classes and compares wires one by one. *)
(* The first part turns the absence of issues into facts about the graph,  *)
(* the second follows the graph as an executor does, from the output back, *)
(* and meets at each step the node the profile found.                      *)
(***************************************************************************)
EXTENDS ManagedCanvas, FiniteSetTheorems, TLAPS

-----------------------------------------------------------------------------
(* The absence of issues *)

LEMMA UnlessEmpty ==
  ASSUME NEW holds \in BOOLEAN, NEW code, NEW about, Unless(holds, code, about) = {}
  PROVE  holds
BY DEF Unless

LEMMA ValidationFacts ==
  ASSUME NEW e, NEW g, NEW told, NEW require,
         Validation(e, g, TRUE, told, require).valid
  PROVE  /\ ApiIssues(g) = {}
         /\ ValueIssues(EditorValues(Kept(e)), ApiValues(g)) = {}
         /\ ComparisonIssues(EditorValues(Kept(e)), ApiValues(g)) = {}
         /\ told.kind # "not asked" => ExecutorIssues(told) = {}
         /\ told.kind = "not asked" => Unless(~ require, "EXECUTOR_UNAVAILABLE", <<>>) = {}
BY DEF Validation

LEMMA ValidationRecord ==
  ASSUME NEW e, NEW g, NEW told, NEW require
  PROVE  /\ Validation(e, g, TRUE, told, require).fingerprint = Fingerprint(told)
         /\ Validation(e, g, TRUE, told, require).effective =
              EffectiveParameters(EditorValues(Kept(e)), ApiValues(g))
BY DEF Validation

(* Without issues of parsing, every class is allowed, and no class but the  *)
(* required ones is left when there is no LoRA.                             *)
LEMMA RequiredOnly ==
  ASSUME NEW g, ApiReads(g), ApiIssues(g) = {}
  PROVE  \A i \in DOMAIN Nodes(g) : Nodes(g)[i].class \in RequiredClasses
<1> DEFINE net == Nodes(g)
<1>1. {net[i].class : i \in DOMAIN net} \ AllowedApiClasses = {}
  <2>1. {Issue("UNSAFE_NODE", <<"api", c>>) :
           c \in {net[i].class : i \in DOMAIN net} \ AllowedApiClasses} = {}
    BY DEF ApiIssues, ParseApiIssues
  <2> QED
    BY <2>1
<1>2. OfClass(net, "LoraLoaderModelOnly") = {}
  <2>1. Unless(OfClass(net, "LoraLoaderModelOnly") = {}, "PARAMETER_MISMATCH", <<"LoRA">>) = {}
    BY DEF ApiIssues, WiringIssues
  <2> QED
    BY <2>1, UnlessEmpty
<1> QED
  BY <1>1, <1>2 DEF OfClass, AllowedApiClasses

LEMMA Classes ==
  /\ OnePerClass \subseteq RequiredClasses
  /\ \A f \in DOMAIN LiteralInputs : LiteralInputs[f][1] \in OnePerClass
BY DEF OnePerClass, RequiredClasses, LiteralInputs

LEMMA FoundOnce ==
  ASSUME NEW g, ApiReads(g), ApiIssues(g) = {}, NEW c \in OnePerClass,
         IsFiniteSet(DOMAIN g.nodes), DOMAIN g.nodes \subseteq Int
  PROVE  \E i \in DOMAIN Nodes(g) : OfClass(Nodes(g), c) = {i} /\ OneNode(Nodes(g), c) = {i}
<1> DEFINE net == Nodes(g)
           of == OfClass(net, c)
<1>1. Cardinality(of) = 1
  <2>1. ApiValueIssues(net) = {}
    BY DEF ApiIssues
  <2>2. {Issue("NODE_CLASS_MISSING", <<"api", d>>) :
           d \in {k \in OnePerClass : Cardinality(OfClass(net, k)) # 1}} = {}
    BY <2>1 DEF ApiValueIssues
  <2> QED
    BY <2>2
<1>2. of \subseteq DOMAIN g.nodes
  BY DEF OfClass, Nodes, Restrict
<1>3. IsFiniteSet(of)
  BY <1>2, FS_Subset
<1>4. PICK i : of = {i}
  BY <1>1, <1>3, FS_Singleton
<1>5. i \in DOMAIN net /\ i \in Int
  BY <1>2, <1>4 DEF OfClass
<1>6. Min({i}) = i
  BY <1>5 DEF Min
<1> QED
  BY <1>4, <1>5, <1>6 DEF OneNode

-----------------------------------------------------------------------------
(* Following the graph *)

(* A graph as the lemmas need it: read, without issues, its nodes finitely  *)
(* many and known by numbers.                                               *)
Clean(g) == /\ ApiReads(g) /\ ApiIssues(g) = {}
            /\ IsFiniteSet(DOMAIN g.nodes) /\ DOMAIN g.nodes \subseteq Int

LEMMA WiresConnected ==
  ASSUME NEW g, Clean(g), NEW w \in Wires(Nodes(g))
  PROVE  Connected(Nodes(g), w)
<1>1. WiringIssues(Nodes(g)) = {}
  BY DEF ApiIssues, Clean
<1>2. {Issue("OUTPUT_CONTRACT_INVALID", <<"wiring", r[2]>>) :
         r \in {x \in Wires(Nodes(g)) : ~ Connected(Nodes(g), x)}} = {}
  BY <1>1 DEF WiringIssues
<1> QED
  BY <1>2

(* A wire leads to the one node it must come from. *)
LEMMA OneBehind ==
  ASSUME NEW g, Clean(g), NEW ids, NEW name, NEW source, NEW slot,
         <<ids, name, source, slot>> \in Wires(Nodes(g)),
         NEW x \in DOMAIN Nodes(g), source = {x}
  PROVE  Behind(Nodes(g), ids, name, slot) = source
<1>1. Connected(Nodes(g), <<ids, name, source, slot>>)
  BY WiresConnected
<1>2. InputOf(Nodes(g), ids, name) = Link(x, slot)
  BY <1>1 DEF Connected
<1>3. /\ IsConnection(Link(x, slot))
      /\ Link(x, slot).link[1] = x /\ Link(x, slot).link[2] = slot
  BY DEF Link, IsConnection, Is
<1> QED
  BY <1>2, <1>3 DEF Behind

LEMMA LeastOfTwo ==
  ASSUME NEW S, IsFiniteSet(S), Cardinality(S) = 2, S \subseteq Int,
         NEW T \in SUBSET S, T # {}
  PROVE  Min(T) \in T
<1>1. PICK x \in S : TRUE
  BY FS_EmptySet
<1>2. PICK y : S \ {x} = {y}
  <2>1. IsFiniteSet(S \ {x}) /\ Cardinality(S \ {x}) = 1
    BY <1>1, FS_RemoveElement
  <2> QED
    BY <2>1, FS_Singleton
<1>3. S = {x, y} /\ x \in Int /\ y \in Int
  BY <1>1, <1>2
<1>4. T = {x} \/ T = {y} \/ T = {x, y}
  BY <1>3
<1>5. \E a \in T : \A b \in T : a <= b
  BY <1>3, <1>4
<1> QED
  BY <1>5 DEF Min

Vaes == {"videoVae", "audioVae"}

(* The loader of a VAE that is wired is a node of the graph, and it loads   *)
(* the pinned file.                                                         *)
LEMMA VaeFound ==
  ASSUME NEW g, Clean(g), NEW f \in Vaes, VaeNode(Nodes(g), f) # {}
  PROVE  /\ \E i \in DOMAIN Nodes(g) : VaeNode(Nodes(g), f) = {i}
         /\ VaeNode(Nodes(g), f) \subseteq OfClass(Nodes(g), "VAELoader")
         /\ InputOf(Nodes(g), VaeNode(Nodes(g), f), "vae_name") = Txt(ModelFile[f])
<1> DEFINE net == Nodes(g)
           loaders == OfClass(net, "VAELoader")
           of == {i \in loaders : InputOf(net, {i}, "vae_name") = Txt(ModelFile[f])}
<1>1. Cardinality(loaders) = 2
  <2>1. ApiValueIssues(net) = {}
    BY DEF ApiIssues, Clean
  <2>2. Unless(Cardinality(OfClass(net, "VAELoader")) = 2, "NODE_CLASS_MISSING",
               <<"api", "VAELoader">>) = {}
    BY <2>1 DEF ApiValueIssues
  <2> QED
    BY <2>2, UnlessEmpty
<1>2. loaders \subseteq DOMAIN g.nodes /\ loaders \subseteq DOMAIN net
  BY DEF OfClass, Nodes, Restrict, Clean
<1>3. IsFiniteSet(loaders) /\ loaders \subseteq Int
  BY <1>2, FS_Subset DEF Clean
<1>4. of # {} /\ VaeNode(net, f) = {Min(of)}
  BY DEF VaeNode
<1>5. Min(of) \in of
  <2> of \in SUBSET loaders
    OBVIOUS
  <2> HIDE DEF of
  <2> QED
    BY <1>1, <1>3, <1>4, LeastOfTwo
<1> QED
  BY <1>2, <1>4, <1>5

LEMMA OneFound ==
  ASSUME NEW g, Clean(g), NEW c \in OnePerClass
  PROVE  \E i \in DOMAIN Nodes(g) : OfClass(Nodes(g), c) = {i} /\ OneNode(Nodes(g), c) = {i}
BY FoundOnce DEF Clean

LEMMA BehindOne ==
  ASSUME NEW g, Clean(g), NEW ids, NEW name, NEW slot, NEW c \in OnePerClass,
         <<ids, name, OneNode(Nodes(g), c), slot>> \in Wires(Nodes(g))
  PROVE  Behind(Nodes(g), ids, name, slot) = OneNode(Nodes(g), c)
<1>1. PICK i \in DOMAIN Nodes(g) : OneNode(Nodes(g), c) = {i}
  BY OneFound
<1> QED
  BY <1>1, OneBehind

(* A VAE that must be wired was found. *)
LEMMA BehindVae ==
  ASSUME NEW g, Clean(g), NEW ids, NEW name, NEW f \in Vaes,
         <<ids, name, VaeNode(Nodes(g), f), 0>> \in Wires(Nodes(g))
  PROVE  /\ Behind(Nodes(g), ids, name, 0) = VaeNode(Nodes(g), f)
         /\ VaeNode(Nodes(g), f) # {}
<1> DEFINE w == <<ids, name, VaeNode(Nodes(g), f), 0>>
<1>1. Connected(Nodes(g), w)
  BY WiresConnected
<1>2. VaeNode(Nodes(g), f) # {}
  BY <1>1 DEF Connected
<1>3. PICK i \in DOMAIN Nodes(g) : VaeNode(Nodes(g), f) = {i}
  BY <1>2, VaeFound
<1> QED
  BY <1>2, <1>3, OneBehind

(* Every hop an executor makes from the output back. *)
LEMMA Hops ==
  ASSUME NEW g, Clean(g)
  PROVE  LET net == Nodes(g)
             One(c) == OneNode(Nodes(g), c)
             sampler == One("SamplerCustomAdvanced")
             h3 == One("MiniMaxH3ImageToVideo")
         IN /\ Behind(net, One("SaveVideo"), "video", 0) = One("CreateVideo")
            /\ Behind(net, One("CreateVideo"), "images", 0) = One("VAEDecode")
            /\ Behind(net, One("CreateVideo"), "audio", 0) = One("VAEDecodeAudio")
            /\ Behind(net, One("VAEDecode"), "samples", 0) = sampler
            /\ Behind(net, One("VAEDecodeAudio"), "samples", 0) = sampler
            /\ Behind(net, sampler, "guider", 0) = One("BasicGuider")
            /\ Behind(net, sampler, "sigmas", 0) = One("BasicScheduler")
            /\ Behind(net, sampler, "noise", 0) = One("RandomNoise")
            /\ Behind(net, sampler, "latent_image", 1) = h3
            /\ Behind(net, One("BasicGuider"), "conditioning", 0) = h3
            /\ Behind(net, One("BasicGuider"), "model", 0) = One("UNETLoader")
            /\ Behind(net, One("BasicScheduler"), "model", 0) = One("UNETLoader")
            /\ Behind(net, h3, "clip", 0) = One("CLIPLoader")
            /\ Behind(net, One("VAEDecode"), "vae", 0) = VaeNode(net, "videoVae")
            /\ Behind(net, h3, "vae", 0) = VaeNode(net, "videoVae")
            /\ Behind(net, One("VAEDecodeAudio"), "vae", 0) = VaeNode(net, "audioVae")
            /\ VaeNode(net, "videoVae") # {} /\ VaeNode(net, "audioVae") # {}
<1> DEFINE net == Nodes(g)
           One(c) == OneNode(Nodes(g), c)
           sampler == One("SamplerCustomAdvanced")
           h3 == One("MiniMaxH3ImageToVideo")
<1>1. /\ {"SamplerCustomAdvanced", "MiniMaxH3ImageToVideo", "CreateVideo", "VAEDecode",
          "VAEDecodeAudio", "BasicGuider", "BasicScheduler", "RandomNoise", "UNETLoader",
          "CLIPLoader"} \subseteq OnePerClass
      /\ "videoVae" \in Vaes /\ "audioVae" \in Vaes
  BY DEF OnePerClass, RequiredClasses, Vaes
<1>2. Behind(net, One("SaveVideo"), "video", 0) = One("CreateVideo")
  BY <1>1, BehindOne DEF Wires
<1>3. /\ Behind(net, One("CreateVideo"), "images", 0) = One("VAEDecode")
      /\ Behind(net, One("CreateVideo"), "audio", 0) = One("VAEDecodeAudio")
  BY <1>1, BehindOne DEF Wires
<1>4. /\ Behind(net, One("VAEDecode"), "samples", 0) = sampler
      /\ Behind(net, One("VAEDecodeAudio"), "samples", 0) = sampler
  BY <1>1, BehindOne DEF Wires
<1>5. /\ Behind(net, sampler, "guider", 0) = One("BasicGuider")
      /\ Behind(net, sampler, "sigmas", 0) = One("BasicScheduler")
      /\ Behind(net, sampler, "noise", 0) = One("RandomNoise")
  BY <1>1, BehindOne DEF Wires
<1>6. /\ Behind(net, sampler, "latent_image", 1) = h3
      /\ Behind(net, One("BasicGuider"), "conditioning", 0) = h3
  BY <1>1, BehindOne DEF Wires
<1>7. /\ Behind(net, One("BasicGuider"), "model", 0) = One("UNETLoader")
      /\ Behind(net, One("BasicScheduler"), "model", 0) = One("UNETLoader")
      /\ Behind(net, h3, "clip", 0) = One("CLIPLoader")
  BY <1>1, BehindOne DEF Wires
<1>8. /\ Behind(net, One("VAEDecode"), "vae", 0) = VaeNode(net, "videoVae")
      /\ Behind(net, h3, "vae", 0) = VaeNode(net, "videoVae")
      /\ Behind(net, One("VAEDecodeAudio"), "vae", 0) = VaeNode(net, "audioVae")
      /\ VaeNode(net, "videoVae") # {} /\ VaeNode(net, "audioVae") # {}
  BY <1>1, BehindVae DEF Wires
<1> QED
  BY <1>2, <1>3, <1>4, <1>5, <1>6, <1>7, <1>8

(* A graph with one place behind each input, and so one tap for each        *)
(* parameter.                                                               *)
Along(g, o, video, pictures, sound, sampler, guider, scheduler, noise, h3, unet, clip, vae,
      audioVae) ==
  /\ Behind(g, {o}, "video", 0) = video
  /\ Behind(g, video, "images", 0) = pictures /\ Behind(g, video, "audio", 0) = sound
  /\ Behind(g, pictures, "samples", 0) = sampler /\ Behind(g, sound, "samples", 0) = sampler
  /\ Behind(g, sampler, "guider", 0) = guider /\ Behind(g, sampler, "sigmas", 0) = scheduler
  /\ Behind(g, sampler, "noise", 0) = noise /\ Behind(g, sampler, "latent_image", 1) = h3
  /\ Behind(g, guider, "conditioning", 0) = h3
  /\ Behind(g, guider, "model", 0) = unet /\ Behind(g, scheduler, "model", 0) = unet
  /\ Behind(g, h3, "clip", 0) = clip /\ Behind(g, h3, "vae", 0) = vae
  /\ Behind(g, pictures, "vae", 0) = vae /\ Behind(g, sound, "vae", 0) = audioVae

TapsAt(g, o, video, scheduler, noise, h3, unet, clip, vae, audioVae) ==
  /\ \A f \in {"prompt", "width", "height"} : Taps(g, o, f) = {InputOf(g, h3, f)}
  /\ Taps(g, o, "frames") = {InputOf(g, h3, "length")}
  /\ Taps(g, o, "seed") = {InputOf(g, noise, "noise_seed")}
  /\ Taps(g, o, "steps") = {InputOf(g, scheduler, "steps")}
  /\ Taps(g, o, "fps") = {InputOf(g, video, "fps")}
  /\ Taps(g, o, "outputPrefix") = {InputOf(g, {o}, "filename_prefix")}
  /\ Taps(g, o, "diffusionModel") = {InputOf(g, unet, "unet_name")}
  /\ Taps(g, o, "textEncoder") = {InputOf(g, clip, "clip_name")}
  /\ Taps(g, o, "videoVae") = {InputOf(g, vae, "vae_name")}
  /\ Taps(g, o, "audioVae") = {InputOf(g, audioVae, "vae_name")}

LEMMA TapsAlong ==
  ASSUME NEW g, NEW o, NEW video, NEW pictures, NEW sound, NEW sampler, NEW guider,
         NEW scheduler, NEW noise, NEW h3, NEW unet, NEW clip, NEW vae, NEW audioVae,
         Along(g, o, video, pictures, sound, sampler, guider, scheduler, noise, h3, unet, clip,
               vae, audioVae)
  PROVE  TapsAt(g, o, video, scheduler, noise, h3, unet, clip, vae, audioVae)
<1> USE DEF Along
<1>1. AllBehind(g, {pictures, sound}, "samples", 0) = {sampler}
  BY DEF AllBehind
<1>2. /\ AllBehind(g, {sampler}, "guider", 0) = {guider}
      /\ AllBehind(g, {sampler}, "sigmas", 0) = {scheduler}
      /\ AllBehind(g, {sampler}, "noise", 0) = {noise}
      /\ AllBehind(g, {sampler}, "latent_image", 1) = {h3}
      /\ AllBehind(g, {guider}, "conditioning", 0) = {h3}
      /\ AllBehind(g, {h3}, "clip", 0) = {clip}
      /\ AllBehind(g, {sound}, "vae", 0) = {audioVae}
  BY DEF AllBehind
<1>3. {h3} \cup {h3} = {h3} /\ {guider} \cup {scheduler} = {guider, scheduler}
      /\ {pictures} \cup {h3} = {pictures, h3}
  OBVIOUS
<1>4. AllBehind(g, {guider, scheduler}, "model", 0) = {unet}
  BY DEF AllBehind
<1>5. AllBehind(g, {pictures, h3}, "vae", 0) = {vae}
  BY DEF AllBehind
<1>6. \A name : /\ InputsOf(g, {h3}, name) = {InputOf(g, h3, name)}
                /\ InputsOf(g, {noise}, name) = {InputOf(g, noise, name)}
                /\ InputsOf(g, {scheduler}, name) = {InputOf(g, scheduler, name)}
                /\ InputsOf(g, {video}, name) = {InputOf(g, video, name)}
                /\ InputsOf(g, {{o}}, name) = {InputOf(g, {o}, name)}
                /\ InputsOf(g, {unet}, name) = {InputOf(g, unet, name)}
                /\ InputsOf(g, {clip}, name) = {InputOf(g, clip, name)}
                /\ InputsOf(g, {vae}, name) = {InputOf(g, vae, name)}
                /\ InputsOf(g, {audioVae}, name) = {InputOf(g, audioVae, name)}
  BY DEF InputsOf
<1> DEFINE samplers == AllBehind(g, {Behind(g, Behind(g, {o}, "video", 0), "images", 0),
                                     Behind(g, Behind(g, {o}, "video", 0), "audio", 0)},
                                 "samples", 0)
           guiders == AllBehind(g, samplers, "guider", 0)
           schedulers == AllBehind(g, samplers, "sigmas", 0)
           h3s == AllBehind(g, samplers, "latent_image", 1)
                    \cup AllBehind(g, guiders, "conditioning", 0)
<1>7. samplers = {sampler}
  BY <1>1
<1>8. guiders = {guider} /\ schedulers = {scheduler}
  BY <1>7, <1>2
<1>9. h3s = {h3}
  BY <1>7, <1>8, <1>2, <1>3
<1>10. /\ \A f \in {"prompt", "width", "height"} : Taps(g, o, f) = {InputOf(g, h3, f)}
       /\ Taps(g, o, "frames") = {InputOf(g, h3, "length")}
  <2>1. /\ \A f \in {"prompt", "width", "height"} : Taps(g, o, f) = InputsOf(g, h3s, f)
        /\ Taps(g, o, "frames") = InputsOf(g, h3s, "length")
    BY DEF Taps
  <2> QED
    BY <2>1, <1>9, <1>6
<1>11. /\ Taps(g, o, "seed") = {InputOf(g, noise, "noise_seed")}
       /\ Taps(g, o, "steps") = {InputOf(g, scheduler, "steps")}
  <2>1. /\ Taps(g, o, "seed") = InputsOf(g, AllBehind(g, samplers, "noise", 0), "noise_seed")
        /\ Taps(g, o, "steps") = InputsOf(g, schedulers, "steps")
    BY DEF Taps
  <2>2. AllBehind(g, samplers, "noise", 0) = {noise}
    BY <1>7, <1>2
  <2> QED
    BY <2>1, <2>2, <1>8, <1>6
<1>12. /\ Taps(g, o, "fps") = {InputOf(g, video, "fps")}
       /\ Taps(g, o, "outputPrefix") = {InputOf(g, {o}, "filename_prefix")}
  BY <1>6 DEF Taps
<1>13. /\ Taps(g, o, "diffusionModel") = {InputOf(g, unet, "unet_name")}
       /\ Taps(g, o, "textEncoder") = {InputOf(g, clip, "clip_name")}
  <2>1. /\ Taps(g, o, "diffusionModel") =
             InputsOf(g, AllBehind(g, guiders \cup schedulers, "model", 0), "unet_name")
        /\ Taps(g, o, "textEncoder") = InputsOf(g, AllBehind(g, h3s, "clip", 0), "clip_name")
    BY DEF Taps
  <2>2. AllBehind(g, guiders \cup schedulers, "model", 0) = {unet}
    BY <1>8, <1>3, <1>4
  <2>3. AllBehind(g, h3s, "clip", 0) = {clip}
    BY <1>9, <1>2
  <2> HIDE DEF samplers, guiders, schedulers, h3s, Along
  <2> QED
    BY <2>1, <2>2, <2>3, <1>6
<1>14. /\ Taps(g, o, "videoVae") = {InputOf(g, vae, "vae_name")}
       /\ Taps(g, o, "audioVae") = {InputOf(g, audioVae, "vae_name")}
  <2>1. /\ Taps(g, o, "videoVae") =
             InputsOf(g, AllBehind(g, {pictures} \cup h3s, "vae", 0), "vae_name")
        /\ Taps(g, o, "audioVae") = InputsOf(g, AllBehind(g, {sound}, "vae", 0), "vae_name")
    BY DEF Taps
  <2>2. AllBehind(g, {pictures} \cup h3s, "vae", 0) = {vae}
    BY <1>9, <1>3, <1>5
  <2> HIDE DEF samplers, guiders, schedulers, h3s, Along
  <2> QED
    BY <2>1, <2>2, <1>2, <1>6
<1> QED
  BY <1>10, <1>11, <1>12, <1>13, <1>14 DEF TapsAt

IsOne(g, place) == \E x \in DOMAIN g : place = {x}

(* The places of a clean graph, all of them single nodes.                   *)
LEMMA CleanAlong ==
  ASSUME NEW g, Clean(g), NEW o, OneNode(Nodes(g), "SaveVideo") = {o}
  PROVE  LET One(c) == OneNode(Nodes(g), c)
         IN /\ Along(Nodes(g), o, One("CreateVideo"), One("VAEDecode"), One("VAEDecodeAudio"),
                     One("SamplerCustomAdvanced"), One("BasicGuider"), One("BasicScheduler"),
                     One("RandomNoise"), One("MiniMaxH3ImageToVideo"), One("UNETLoader"),
                     One("CLIPLoader"), VaeNode(Nodes(g), "videoVae"),
                     VaeNode(Nodes(g), "audioVae"))
            /\ \A c \in OnePerClass : IsOne(Nodes(g), One(c))
            /\ \A f \in Vaes : IsOne(Nodes(g), VaeNode(Nodes(g), f))
<1>1. \A c \in OnePerClass : IsOne(Nodes(g), OneNode(Nodes(g), c))
  BY OneFound DEF IsOne
<1>2. \A f \in Vaes : IsOne(Nodes(g), VaeNode(Nodes(g), f))
  BY Hops, VaeFound DEF IsOne, Vaes
<1> QED
  BY <1>1, <1>2, Hops DEF Along

(* Where a parameter takes effect is one input: the one the profile reads.  *)
LEMMA OneTap ==
  ASSUME NEW g, Clean(g), NEW o, OneNode(Nodes(g), "SaveVideo") = {o}
  PROVE  /\ \A f \in DOMAIN LiteralInputs :
              Taps(Nodes(g), o, f) =
                {InputOf(Nodes(g), OneNode(Nodes(g), LiteralInputs[f][1]), LiteralInputs[f][2])}
         /\ \A f \in Vaes :
              Taps(Nodes(g), o, f) = {InputOf(Nodes(g), VaeNode(Nodes(g), f), "vae_name")}
<1> DEFINE net == Nodes(g)
           One(c) == OneNode(net, c)
           h3 == One("MiniMaxH3ImageToVideo")
           sampler == One("SamplerCustomAdvanced")
<1>1. /\ Along(net, o, One("CreateVideo"), One("VAEDecode"), One("VAEDecodeAudio"), sampler,
               One("BasicGuider"), One("BasicScheduler"), One("RandomNoise"), h3,
               One("UNETLoader"), One("CLIPLoader"), VaeNode(net, "videoVae"),
               VaeNode(net, "audioVae"))
      /\ One("SaveVideo") = {o}
  BY CleanAlong
<1> HIDE DEF sampler, h3, One, net
<1>2. /\ \A f \in {"prompt", "width", "height"} : Taps(net, o, f) = {InputOf(net, h3, f)}
      /\ Taps(net, o, "frames") = {InputOf(net, h3, "length")}
      /\ Taps(net, o, "seed") = {InputOf(net, One("RandomNoise"), "noise_seed")}
      /\ Taps(net, o, "steps") = {InputOf(net, One("BasicScheduler"), "steps")}
      /\ Taps(net, o, "fps") = {InputOf(net, One("CreateVideo"), "fps")}
      /\ Taps(net, o, "outputPrefix") = {InputOf(net, One("SaveVideo"), "filename_prefix")}
      /\ Taps(net, o, "diffusionModel") = {InputOf(net, One("UNETLoader"), "unet_name")}
      /\ Taps(net, o, "textEncoder") = {InputOf(net, One("CLIPLoader"), "clip_name")}
      /\ Taps(net, o, "videoVae") = {InputOf(net, VaeNode(net, "videoVae"), "vae_name")}
      /\ Taps(net, o, "audioVae") = {InputOf(net, VaeNode(net, "audioVae"), "vae_name")}
  <2>1. TapsAt(net, o, One("CreateVideo"), One("BasicScheduler"), One("RandomNoise"), h3,
               One("UNETLoader"), One("CLIPLoader"), VaeNode(net, "videoVae"),
               VaeNode(net, "audioVae"))
    BY <1>1, TapsAlong
  <2> QED
    BY <1>1, <2>1 DEF TapsAt
<1>3. \A f \in DOMAIN LiteralInputs :
        Taps(net, o, f) = {InputOf(net, One(LiteralInputs[f][1]), LiteralInputs[f][2])}
  BY <1>1, <1>2 DEF LiteralInputs, h3
<1>4. \A f \in Vaes : Taps(net, o, f) = {InputOf(net, VaeNode(net, f), "vae_name")}
  BY <1>2 DEF Vaes
<1> QED
  BY <1>3, <1>4 DEF net, One

MadeFields == ComparedFields \cup {"frames"}

LEMMA FieldsOf ==
  /\ MadeFields = DOMAIN LiteralInputs \cup Vaes
  /\ MadeFields \subseteq ApiFields
  /\ Vaes \subseteq ModelFields
  /\ "turbo" \notin MadeFields /\ "duration" \notin ApiFields
  /\ DOMAIN LiteralInputs \cap Vaes = {}
BY DEF MadeFields, ComparedFields, ModelFields, LiteralInputs, Vaes, ApiFields

LEMMA LiteralText ==
  ASSUME NEW t PROVE Literal(Txt(t)) = Txt(t)
BY DEF Literal, IsConnection, Is, Txt

(* What a clean graph makes is what the profile reads of it.                *)
LEMMA MadeIsRead ==
  ASSUME NEW g, Clean(g), NEW f \in MadeFields
  PROVE  MadeBy(Nodes(g), f) = {ApiValues(g)[f]}
<1> DEFINE net == Nodes(g)
<1>1. PICK o \in DOMAIN net : Outputs(net) = {o} /\ OneNode(net, "SaveVideo") = {o}
  BY OneFound DEF Outputs, OnePerClass, RequiredClasses
<1>2. UNION {Taps(net, output, f) : output \in Outputs(net)} = Taps(net, o, f)
  BY <1>1
<1>3. CASE f \in DOMAIN LiteralInputs
  <2> DEFINE v == InputOf(net, OneNode(net, LiteralInputs[f][1]), LiteralInputs[f][2])
  <2>1. Taps(net, o, f) = {v}
    BY <1>1, <1>3, OneTap
  <2>2. ApiValues(g)[f] = Literal(v)
    <3>1. f \in ApiFields /\ f \notin {"turbo", "videoVae", "audioVae"} /\ ApiReads(g)
      BY <1>3, FieldsOf DEF Vaes, Clean
    <3> QED
      BY <3>1 DEF ApiValues
  <2> HIDE DEF v
  <2> QED
    BY <1>2, <2>1, <2>2 DEF MadeBy
<1>4. CASE f \in Vaes
  <2> DEFINE v == InputOf(net, VaeNode(net, f), "vae_name")
  <2>1. Taps(net, o, f) = {v}
    BY <1>1, <1>4, OneTap
  <2>2. VaeNode(net, f) # {}
    BY <1>4, Hops DEF Vaes
  <2>3. v = Txt(ModelFile[f])
    BY <1>4, <2>2, VaeFound
  <2>4. ApiValues(g)[f] = Txt(ModelFile[f])
    <3>1. PICK i \in DOMAIN net : VaeNode(net, f) = {i}
      BY <1>4, <2>2, VaeFound
    <3>2. i \in OfClass(net, "VAELoader")
      BY <1>4, <2>2, <3>1, VaeFound
    <3>3. Txt(ModelFile[f]) \in VaeNames(net)
      BY <2>3, <3>1, <3>2, LiteralText DEF VaeNames
    <3>4. VaeValue(net, f) = Txt(ModelFile[f])
      BY <3>3 DEF VaeValue
    <3>5. f \in ApiFields /\ f # "turbo" /\ f \in {"videoVae", "audioVae"} /\ ApiReads(g)
      BY <1>4, FieldsOf DEF Vaes, Clean
    <3> QED
      BY <3>4, <3>5 DEF ApiValues
  <2> HIDE DEF v
  <2> QED
    BY <1>2, <2>1, <2>3, <2>4, LiteralText DEF MadeBy
<1> QED
  BY <1>3, <1>4, FieldsOf

-----------------------------------------------------------------------------
(* What the profile compares *)

LEMMA Kinds ==
  /\ \A v, kind : Is(kind, v) /\ kind # "undefined" => Defined(v)
  /\ \A n : Defined(Num(n))
  /\ \A v : IsInteger(v) => Defined(v)
  /\ \A t : Defined(Txt(t))
BY DEF Is, Defined, Undefined, Num, Txt, IsInteger

(* The checks of the values, one by one.                                    *)
LEMMA ValuesChecked ==
  ASSUME NEW canvas, NEW run, ValueIssues(canvas, run) = {}
  PROVE  /\ ValidPrompt(canvas.prompt) /\ ValidPrompt(run.prompt)
         /\ ValidDimensions(canvas.width, canvas.height)
         /\ ValidDimensions(run.width, run.height)
         /\ OnGrid(run.frames) /\ OnGrid(ExpectedFrames(canvas))
         /\ ~ Differs(ExpectedFrames(canvas), run.frames)
         /\ run.fps = Num(Fps) /\ canvas.fps = Num(Fps)
         /\ run.steps = Num(DefaultSteps) /\ canvas.steps = Num(DefaultSteps)
         /\ ValidSeed(run.seed) /\ ValidSeed(canvas.seed)
<1>1. Unless(ValidPrompt(canvas.prompt) /\ ValidPrompt(run.prompt), "PARAMETER_MISMATCH",
             <<"prompt">>) = {}
  BY DEF ValueIssues
<1>2. /\ Unless(ValidDimensions(canvas.width, canvas.height), "DIMENSION_INVALID", <<"editor">>) = {}
      /\ Unless(ValidDimensions(run.width, run.height), "DIMENSION_INVALID", <<"api">>) = {}
  BY DEF ValueIssues
<1>3. /\ Unless(OnGrid(run.frames), "DURATION_GRID_INVALID", <<"api">>) = {}
      /\ Unless(OnGrid(ExpectedFrames(canvas)), "DURATION_GRID_INVALID", <<"editor">>) = {}
      /\ Unless(~ Differs(ExpectedFrames(canvas), run.frames), "GRAPH_EXPORT_MISMATCH",
                <<"frame length">>) = {}
  BY DEF ValueIssues
<1>4. /\ Unless(run.fps = Num(Fps), "PARAMETER_MISMATCH", <<"fps", "api">>) = {}
      /\ Unless(canvas.fps = Num(Fps), "PARAMETER_MISMATCH", <<"fps", "editor">>) = {}
      /\ Unless(canvas.steps = Num(DefaultSteps) /\ run.steps = Num(DefaultSteps),
                "PARAMETER_MISMATCH", <<"steps">>) = {}
  BY DEF ValueIssues
<1>5. /\ Unless(ValidSeed(run.seed), "PARAMETER_MISMATCH", <<"seed", "api">>) = {}
      /\ Unless(ValidSeed(canvas.seed), "PARAMETER_MISMATCH", <<"seed", "editor">>) = {}
  BY DEF ValueIssues
<1> QED
  BY <1>1, <1>2, <1>3, <1>4, <1>5 DEF Unless

LEMMA FieldsCompared ==
  ASSUME NEW canvas, NEW run, ComparisonIssues(canvas, run) = {}
  PROVE  /\ \A f \in ComparedFields : ~ Differs(canvas[f], run[f])
         /\ \A f \in ModelFields : canvas[f] = Txt(ModelFile[f]) /\ run[f] = Txt(ModelFile[f])
         /\ ValidOutputPrefix(canvas.outputPrefix) /\ ValidOutputPrefix(run.outputPrefix)
<1>1. {Issue("GRAPH_EXPORT_MISMATCH", <<f>>) :
         f \in {c \in ComparedFields : Differs(canvas[c], run[c])}} = {}
  BY DEF ComparisonIssues
<1>2. /\ {Issue("MODEL_MISSING", <<"editor", f>>) :
            f \in {c \in ModelFields : canvas[c] # Txt(ModelFile[c])}} = {}
      /\ {Issue("MODEL_MISSING", <<"api", f>>) :
            f \in {c \in ModelFields : run[c] # Txt(ModelFile[c])}} = {}
  BY DEF ComparisonIssues
<1>3. /\ Unless(ValidOutputPrefix(canvas.outputPrefix), "OUTPUT_CONTRACT_INVALID",
                <<"prefix", "editor">>) = {}
      /\ Unless(ValidOutputPrefix(run.outputPrefix), "OUTPUT_CONTRACT_INVALID",
                <<"prefix", "api">>) = {}
  BY DEF ComparisonIssues
<1> QED
  BY <1>1, <1>2, <1>3 DEF Unless

LEMMA DimensionsInteger ==
  ASSUME NEW w, NEW h, ValidDimensions(w, h)
  PROVE  IsInteger(w) /\ IsInteger(h)
BY DEF ValidDimensions

(* Values that are compared are defined on both sides, so none is skipped.  *)
LEMMA ReadAsShown ==
  ASSUME NEW canvas, NEW run, ValueIssues(canvas, run) = {}, ComparisonIssues(canvas, run) = {}
  PROVE  /\ \A f \in ComparedFields : run[f] = canvas[f]
         /\ Defined(ExpectedFrames(canvas)) /\ run.frames = ExpectedFrames(canvas)
<1>1. /\ Defined(canvas.prompt) /\ Defined(run.prompt)
      /\ Defined(canvas.outputPrefix) /\ Defined(run.outputPrefix)
  BY ValuesChecked, FieldsCompared, Kinds DEF ValidPrompt, ValidOutputPrefix
<1>2. /\ Defined(canvas.width) /\ Defined(canvas.height)
      /\ Defined(run.width) /\ Defined(run.height)
      /\ Defined(canvas.seed) /\ Defined(run.seed)
  <2>1. /\ IsInteger(canvas.width) /\ IsInteger(canvas.height)
        /\ IsInteger(run.width) /\ IsInteger(run.height)
    BY ValuesChecked, DimensionsInteger
  <2>2. IsInteger(canvas.seed) /\ IsInteger(run.seed)
    BY ValuesChecked DEF ValidSeed
  <2> QED
    BY <2>1, <2>2, Kinds
<1>3. Defined(ExpectedFrames(canvas)) /\ Defined(run.frames)
  BY ValuesChecked, Kinds DEF OnGrid
<1>4. \A f \in ModelFields \cup {"steps", "fps"} : run[f] = canvas[f]
  BY ValuesChecked, FieldsCompared
<1>5. \A f \in {"prompt", "width", "height", "seed", "outputPrefix"} : run[f] = canvas[f]
  BY <1>1, <1>2, FieldsCompared DEF Differs, ComparedFields
<1> QED
  BY <1>3, <1>4, <1>5, ValuesChecked DEF Differs, ComparedFields

(* durationToFrames takes the fewest frames of the grid that cover it.      *)
LEMMA FramesCover ==
  ASSUME NEW h \in Int, Defined(FramesOf(h))
  PROVE  FramesOf(h).num \in Int /\ Covers(FramesOf(h).num, h)
<1> DEFINE q == (-(Fps * h - 500)) \div 1700
<1>1. FramesOf(h) = Num(17 * (-q) + 5)
  BY DEF FramesOf, CeilDiv, Defined
<1>2. q \in Int /\ 1700 * q <= 500 - 24 * h /\ 500 - 24 * h < 1700 * q + 1700
  BY DEF Fps
<1> HIDE DEF q
<1>3. FramesOf(h).num = 17 * (-q) + 5
  BY <1>1 DEF Num
<1> QED
  BY <1>2, <1>3 DEF Covers, Fps

-----------------------------------------------------------------------------
(* What validation promises *)

(* Graphs the profile finds valid run as the canvas shows, asked of an      *)
(* executor or not.                                                         *)
LEMMA ValidRunsAsShown ==
  ASSUME NEW e, NEW g, GraphIsSound(g), NEW told, NEW require, ApiReads(g),
         Validation(e, g, TRUE, told, require).valid
  PROVE  LET canvas == EditorValues(Kept(e))
             frames == ApiValues(g).frames
         IN /\ Clean(g)
            /\ \A f \in ComparedFields : ApiValues(g)[f] = canvas[f]
            /\ \A f \in MadeFields : MadeBy(Nodes(g), f) = {ApiValues(g)[f]}
            /\ FiniteDuration(canvas.duration) => Covers(frames.num, Hundredths(canvas.duration))
<1> DEFINE canvas == EditorValues(Kept(e))
<1>1. Clean(g)
  BY ValidationFacts DEF Clean, GraphIsSound
<1>2. /\ \A f \in ComparedFields : ApiValues(g)[f] = canvas[f]
      /\ Defined(ExpectedFrames(canvas)) /\ ApiValues(g).frames = ExpectedFrames(canvas)
  BY ValidationFacts, ReadAsShown
<1>3. \A f \in MadeFields : MadeBy(Nodes(g), f) = {ApiValues(g)[f]}
  BY <1>1, MadeIsRead
<1>4. ASSUME FiniteDuration(canvas.duration)
      PROVE  Covers(ApiValues(g).frames.num, Hundredths(canvas.duration))
  <2> DEFINE d == canvas.duration
  <2>1. Hundredths(d) \in Int
    <3> HIDE DEF d, canvas
    <3> QED
      BY <1>4 DEF FiniteDuration, Hundredths, IsInteger, Is, canvas, d
  <2>2. ExpectedFrames(canvas) = FramesOf(Hundredths(d))
    BY <1>4 DEF ExpectedFrames
  <2> QED
    BY <1>2, <2>1, <2>2, FramesCover
<1> QED
  BY <1>1, <1>2, <1>3, <1>4

(* A graph that is not even an object is not valid. *)
LEMMA ValidIsRead ==
  ASSUME NEW e, NEW g, NEW told, NEW require, Validation(e, g, TRUE, told, require).valid
  PROVE  ApiReads(g)
<1>1. ApiIssues(g) = {}
  BY ValidationFacts
<1> QED
  BY <1>1 DEF ApiIssues, ParseApiIssues

(* The verdict of an executor that answered: it offers every class and      *)
(* model the graph needs, and its fingerprint says so.                      *)
LEMMA ValidFitsExecutor ==
  ASSUME NEW e, NEW g, NEW told, Validation(e, g, TRUE, told, TRUE).valid
  PROVE  /\ \A f \in ModelFields : Lists(told, f)
         /\ {Nodes(g)[i].class : i \in DOMAIN Nodes(g)} \subseteq Fingerprint(told).classes
         /\ \A f \in ModelFields : ModelFile[f] \in Fingerprint(told).choices[Loader[f]]
<1>1. ExecutorIssues(told) = {}
  <2>1. told.kind # "not asked"
    BY ValidationFacts DEF Unless
  <2> QED
    BY <2>1, ValidationFacts
<1>2. told.kind = "answer"
  BY <1>1 DEF ExecutorIssues
<1>3. /\ {Issue("NODE_CLASS_MISSING", <<"executor", c>>) :
            c \in {r \in RequiredClasses : ~ Offers(told, r)}} = {}
      /\ {Issue("MODEL_MISSING", <<"executor", f>>) :
            f \in {m \in ModelFields : Offers(told, Loader[m]) /\ ~ Lists(told, m)}} = {}
  BY <1>1, <1>2 DEF ExecutorIssues
<1>4. \A c \in RequiredClasses : Offers(told, c)
  BY <1>3
<1>5. \A f \in ModelFields : Loader[f] \in RequiredClasses
  BY DEF Loader, RequiredClasses, ModelFields
<1>6. \A f \in ModelFields : Lists(told, f)
  BY <1>3, <1>4, <1>5
<1>7. Fingerprint(told) =
        [ classes |-> DOMAIN told.offers \cap RequiredClasses,
          choices |-> [c \in Range(Loader) |-> IF Offers(told, c) THEN told.offers[c] ELSE {}] ]
  BY <1>2 DEF Fingerprint
<1>8. RequiredClasses \subseteq Fingerprint(told).classes
  BY <1>4, <1>7 DEF Offers
<1>9. \A i \in DOMAIN Nodes(g) : Nodes(g)[i].class \in RequiredClasses
  BY ValidIsRead, ValidationFacts, RequiredOnly
<1>10. ASSUME NEW f \in ModelFields
       PROVE  ModelFile[f] \in Fingerprint(told).choices[Loader[f]]
  <2>1. Loader[f] \in Range(Loader)
    BY DEF Range, Loader
  <2>2. Fingerprint(told).choices[Loader[f]] = told.offers[Loader[f]]
    BY <1>4, <1>5, <1>7, <2>1
  <2> QED
    BY <1>6, <2>2 DEF Lists
<1> QED
  BY <1>6, <1>8, <1>9, <1>10

-----------------------------------------------------------------------------
(* The prompt that is submitted *)

LEMMA NodesSound ==
  ASSUME NEW g, GraphIsSound(g), ApiReads(g)
  PROVE  /\ Nodes(g) = [i \in DOMAIN Nodes(g) |-> Nodes(g)[i]]
         /\ \A i \in DOMAIN Nodes(g) : IsNode(Nodes(g)[i])
BY DEF GraphIsSound, Nodes, Restrict

(* Only the prefix of the output changes.                                   *)
LEMMA NormalizedNode ==
  ASSUME NEW g, GraphIsSound(g), ApiReads(g), NEW prefix, NEW i \in DOMAIN Nodes(g)
  PROVE  LET n == Normalized(g, prefix)
         IN /\ n[i].class = Nodes(g)[i].class
            /\ Nodes(g)[i].class # "SaveVideo" => n[i] = Nodes(g)[i]
            /\ Nodes(g)[i].class = "SaveVideo" =>
                 /\ DOMAIN n[i].inputs = DOMAIN Nodes(g)[i].inputs \cup {"filename_prefix"}
                 /\ n[i].inputs["filename_prefix"] = prefix
                 /\ \A name \in DOMAIN Nodes(g)[i].inputs \ {"filename_prefix"} :
                      n[i].inputs[name] = Nodes(g)[i].inputs[name]
<1> DEFINE x == Nodes(g)[i]
           set == [filename_prefix |-> prefix]
<1>1. x = Node(x.class, x.inputs)
  BY NodesSound DEF IsNode
<1>2. Normalized(g, prefix)[i] = IF x.class = "SaveVideo" THEN With(x, set) ELSE x
  BY DEF Normalized
<1> HIDE DEF x
<1>3. With(x, set).class = x.class /\ With(x, set).inputs = Over(set, x.inputs)
  BY <1>1 DEF With, Node
<1>4. /\ DOMAIN Over(set, x.inputs) = DOMAIN x.inputs \cup {"filename_prefix"}
      /\ Over(set, x.inputs)["filename_prefix"] = prefix
      /\ \A name \in DOMAIN x.inputs \ {"filename_prefix"} :
           Over(set, x.inputs)[name] = x.inputs[name]
  BY DEF Over
<1> QED
  BY <1>2, <1>3, <1>4 DEF x

LEMMA InputOfOne ==
  ASSUME NEW g, NEW x, NEW name
  PROVE  InputOf(g, {x}, name) =
           IF name \in DOMAIN g[x].inputs THEN g[x].inputs[name] ELSE Undefined
BY DEF InputOf

LEMMA NormalizedInput ==
  ASSUME NEW g, GraphIsSound(g), ApiReads(g), NEW prefix, NEW name,
         name # "filename_prefix", NEW x \in DOMAIN Nodes(g)
  PROVE  InputOf(Normalized(g, prefix), {x}, name) = InputOf(Nodes(g), {x}, name)
<1> DEFINE a == Nodes(g)[x].inputs
           b == Normalized(g, prefix)[x].inputs
<1>1. (name \in DOMAIN a <=> name \in DOMAIN b) /\ (name \in DOMAIN a => b[name] = a[name])
  <2>1. CASE Nodes(g)[x].class = "SaveVideo"
    <3>1. /\ DOMAIN b = DOMAIN a \cup {"filename_prefix"}
          /\ \A k \in DOMAIN a \ {"filename_prefix"} : b[k] = a[k]
      BY <2>1, NormalizedNode
    <3> HIDE DEF a, b
    <3> QED
      BY <3>1
  <2>2. CASE Nodes(g)[x].class # "SaveVideo"
    BY <2>2, NormalizedNode
  <2> QED
    BY <2>1, <2>2
<1>2. InputOf(Nodes(g), {x}, name) = IF name \in DOMAIN a THEN a[name] ELSE Undefined
  BY InputOfOne
<1>3. InputOf(Normalized(g, prefix), {x}, name) = IF name \in DOMAIN b THEN b[name] ELSE Undefined
  BY InputOfOne
<1> HIDE DEF a, b
<1> QED
  BY <1>1, <1>2, <1>3

LEMMA NormalizedBehind ==
  ASSUME NEW g, GraphIsSound(g), ApiReads(g), NEW prefix, NEW name, NEW slot,
         name # "filename_prefix", NEW place, IsOne(Nodes(g), place)
  PROVE  /\ InputOf(Normalized(g, prefix), place, name) = InputOf(Nodes(g), place, name)
         /\ Behind(Normalized(g, prefix), place, name, slot) = Behind(Nodes(g), place, name, slot)
<1>1. PICK x \in DOMAIN Nodes(g) : place = {x}
  BY DEF IsOne
<1>2. InputOf(Normalized(g, prefix), {x}, name) = InputOf(Nodes(g), {x}, name)
  BY NormalizedInput
<1>3. DOMAIN Normalized(g, prefix) = DOMAIN Nodes(g)
  BY DEF Normalized
<1> QED
  BY <1>1, <1>2, <1>3 DEF Behind

LEMMA AlongNormalized ==
  ASSUME NEW g, GraphIsSound(g), ApiReads(g), NEW prefix, NEW o \in DOMAIN Nodes(g),
         NEW video, NEW pictures, NEW sound, NEW sampler, NEW guider, NEW scheduler,
         NEW noise, NEW h3, NEW unet, NEW clip, NEW vae, NEW audioVae,
         IsOne(Nodes(g), video), IsOne(Nodes(g), pictures), IsOne(Nodes(g), sound),
         IsOne(Nodes(g), sampler), IsOne(Nodes(g), guider), IsOne(Nodes(g), scheduler),
         IsOne(Nodes(g), h3),
         Along(Nodes(g), o, video, pictures, sound, sampler, guider, scheduler, noise, h3,
               unet, clip, vae, audioVae)
  PROVE  Along(Normalized(g, prefix), o, video, pictures, sound, sampler, guider, scheduler,
               noise, h3, unet, clip, vae, audioVae)
<1>1. IsOne(Nodes(g), {o})
  BY DEF IsOne
<1> QED
  BY <1>1, NormalizedBehind DEF Along


(* Graphs with the same places, and the same inputs there, have the same    *)
(* taps.                                                                    *)
SameInputs(k, g, place) ==
  \A name : name # "filename_prefix" => InputOf(k, place, name) = InputOf(g, place, name)

LEMMA SameTaps ==
  ASSUME NEW g, NEW k, NEW o, NEW video, NEW scheduler, NEW noise, NEW h3, NEW unet,
         NEW clip, NEW vae, NEW audioVae,
         TapsAt(g, o, video, scheduler, noise, h3, unet, clip, vae, audioVae),
         TapsAt(k, o, video, scheduler, noise, h3, unet, clip, vae, audioVae),
         SameInputs(k, g, h3), SameInputs(k, g, noise), SameInputs(k, g, scheduler),
         SameInputs(k, g, video), SameInputs(k, g, unet), SameInputs(k, g, clip),
         SameInputs(k, g, vae), SameInputs(k, g, audioVae)
  PROVE  \A f \in MadeFields \ {"outputPrefix"} : Taps(k, o, f) = Taps(g, o, f)
<1>1. \A f \in {"prompt", "width", "height"} : Taps(k, o, f) = Taps(g, o, f)
  BY DEF TapsAt, SameInputs
<1>2. Taps(k, o, "frames") = Taps(g, o, "frames") /\ Taps(k, o, "seed") = Taps(g, o, "seed")
  BY DEF TapsAt, SameInputs
<1>3. Taps(k, o, "steps") = Taps(g, o, "steps") /\ Taps(k, o, "fps") = Taps(g, o, "fps")
  BY DEF TapsAt, SameInputs
<1>4. /\ Taps(k, o, "diffusionModel") = Taps(g, o, "diffusionModel")
      /\ Taps(k, o, "textEncoder") = Taps(g, o, "textEncoder")
  BY DEF TapsAt, SameInputs
<1>5. /\ Taps(k, o, "videoVae") = Taps(g, o, "videoVae")
      /\ Taps(k, o, "audioVae") = Taps(g, o, "audioVae")
  BY DEF TapsAt, SameInputs
<1> QED
  BY <1>1, <1>2, <1>3, <1>4, <1>5 DEF MadeFields, ComparedFields, ModelFields

(* What a normalised graph makes is what the graph makes, under the prefix. *)
LEMMA NormalizedMakes ==
  ASSUME NEW g, GraphIsSound(g), Clean(g), NEW prefix
  PROVE  /\ \A f \in MadeFields \ {"outputPrefix"} :
              MadeBy(Normalized(g, prefix), f) = MadeBy(Nodes(g), f)
         /\ MadeBy(Normalized(g, prefix), "outputPrefix") = {Literal(prefix)}
<1> DEFINE net == Nodes(g)
           n == Normalized(g, prefix)
           One(c) == OneNode(net, c)
           h3 == One("MiniMaxH3ImageToVideo")
<1>1. PICK o \in DOMAIN net : Outputs(net) = {o} /\ One("SaveVideo") = {o}
  BY OneFound DEF Outputs, OnePerClass, RequiredClasses
<1>2. ApiReads(g)
  BY DEF Clean
<1>3. Outputs(n) = {o}
  <2>1. DOMAIN n = DOMAIN net /\ \A i \in DOMAIN net : n[i].class = net[i].class
    BY <1>2, NormalizedNode DEF Normalized
  <2> HIDE DEF n, net
  <2> QED
    BY <1>1, <2>1 DEF Outputs, OfClass
<1>4. {"SamplerCustomAdvanced", "MiniMaxH3ImageToVideo", "CreateVideo", "VAEDecode",
       "VAEDecodeAudio", "BasicGuider", "BasicScheduler", "RandomNoise", "UNETLoader",
       "CLIPLoader"} \subseteq OnePerClass
  BY DEF OnePerClass, RequiredClasses
<1>5. /\ Along(net, o, One("CreateVideo"), One("VAEDecode"), One("VAEDecodeAudio"),
               One("SamplerCustomAdvanced"), One("BasicGuider"), One("BasicScheduler"),
               One("RandomNoise"), h3, One("UNETLoader"), One("CLIPLoader"),
               VaeNode(net, "videoVae"), VaeNode(net, "audioVae"))
      /\ \A c \in OnePerClass : IsOne(net, One(c))
      /\ IsOne(net, VaeNode(net, "videoVae")) /\ IsOne(net, VaeNode(net, "audioVae"))
  BY <1>1, CleanAlong DEF Vaes
<1>6. Along(n, o, One("CreateVideo"), One("VAEDecode"), One("VAEDecodeAudio"),
            One("SamplerCustomAdvanced"), One("BasicGuider"), One("BasicScheduler"),
            One("RandomNoise"), h3, One("UNETLoader"), One("CLIPLoader"),
            VaeNode(net, "videoVae"), VaeNode(net, "audioVae"))
  BY <1>2, <1>4, <1>5, AlongNormalized
<1>7. \A place, name : IsOne(net, place) /\ name # "filename_prefix" =>
        InputOf(n, place, name) = InputOf(net, place, name)
  BY <1>2, NormalizedBehind
<1> HIDE DEF n, One, h3, net
<1>8. /\ TapsAt(net, o, One("CreateVideo"), One("BasicScheduler"), One("RandomNoise"), h3,
                One("UNETLoader"), One("CLIPLoader"), VaeNode(net, "videoVae"),
                VaeNode(net, "audioVae"))
      /\ TapsAt(n, o, One("CreateVideo"), One("BasicScheduler"), One("RandomNoise"), h3,
                One("UNETLoader"), One("CLIPLoader"), VaeNode(net, "videoVae"),
                VaeNode(net, "audioVae"))
  BY <1>5, <1>6, TapsAlong
<1>9. \A f \in MadeFields \ {"outputPrefix"} : Taps(n, o, f) = Taps(net, o, f)
  <2>1. \A c \in OnePerClass : SameInputs(n, net, One(c))
    BY <1>5, <1>7 DEF SameInputs
  <2>2. /\ SameInputs(n, net, VaeNode(net, "videoVae"))
        /\ SameInputs(n, net, VaeNode(net, "audioVae"))
    BY <1>5, <1>7 DEF SameInputs
  <2>3. /\ SameInputs(n, net, One("CreateVideo")) /\ SameInputs(n, net, One("BasicScheduler"))
        /\ SameInputs(n, net, One("RandomNoise")) /\ SameInputs(n, net, h3)
        /\ SameInputs(n, net, One("UNETLoader")) /\ SameInputs(n, net, One("CLIPLoader"))
    BY <1>4, <2>1 DEF h3
  <2> QED
    BY <2>2, <2>3, <1>8, SameTaps
<1>10. Taps(n, o, "outputPrefix") = {prefix}
  <2>1. Taps(n, o, "outputPrefix") = {InputOf(n, {o}, "filename_prefix")}
    BY <1>8 DEF TapsAt
  <2>2. net[o].class = "SaveVideo"
    BY <1>1 DEF Outputs, OfClass
  <2>3. n[o].inputs["filename_prefix"] = prefix /\ "filename_prefix" \in DOMAIN n[o].inputs
    BY <1>1, <1>2, <2>2, NormalizedNode DEF n, net
  <2> QED
    BY <2>1, <2>3, InputOfOne
<1>11. \A f : /\ MadeBy(n, f) = {Literal(v) : v \in Taps(n, o, f)}
              /\ MadeBy(net, f) = {Literal(v) : v \in Taps(net, o, f)}
  BY <1>1, <1>3 DEF MadeBy
<1>12. \A f \in MadeFields \ {"outputPrefix"} : MadeBy(n, f) = MadeBy(net, f)
  BY <1>9, <1>11
<1>13. MadeBy(n, "outputPrefix") = {Literal(prefix)}
  BY <1>10, <1>11
<1> QED
  BY <1>12, <1>13 DEF n, net


-----------------------------------------------------------------------------
(* What an attempt records *)

LEMMA ParametersRead ==
  ASSUME NEW canvas, NEW read, Defined(EffectiveParameters(canvas, read))
  PROVE  /\ \A f \in MadeFields : EffectiveParameters(canvas, read)[f] = read[f]
         /\ EffectiveParameters(canvas, read).duration = canvas.duration
         /\ FiniteDuration(canvas.duration)
         /\ IsInteger(read.width) /\ IsInteger(read.height) /\ OnGrid(read.frames)
         /\ read.fps = Num(Fps)
<1>1. /\ EffectiveParameters(canvas, read) =
           [f \in ApiFields \cup {"duration"} |->
              IF f = "duration" THEN canvas.duration ELSE read[f]]
      /\ FiniteDuration(canvas.duration)
      /\ ValidDimensions(read.width, read.height) /\ OnGrid(read.frames)
      /\ read.fps = Num(Fps)
  BY DEF EffectiveParameters, Defined
<1>2. MadeFields \subseteq ApiFields /\ "duration" \notin MadeFields
  BY FieldsOf
<1> QED
  BY <1>1, <1>2, DimensionsInteger

(* What the executor makes of the prompt of an attempt.                     *)
AttemptMakes ==
  /\ \A f \in MadeFields \ {"outputPrefix"} :
       MadeBy(attempt.prompt.nodes, f) = {attempt.parameters[f]}
  /\ MadeBy(attempt.prompt.nodes, "outputPrefix") = {AttemptPrefix}
  /\ IsInteger(attempt.parameters.width) /\ IsInteger(attempt.parameters.height)
  /\ OnGrid(attempt.parameters.frames) /\ attempt.parameters.fps = Num(Fps)
  /\ Covers(attempt.parameters.frames.num, Hundredths(attempt.parameters.duration))

LEMMA SubmittedMakes ==
  ASSUME RevisionIsSound, AttemptIsSound, attempt # None, attempt.prompt # None
  PROVE  AttemptMakes
<1> DEFINE g == revision.api
           canvas == EditorValues(Kept(revision.editor))
           read == ApiValues(g)
<1>1. /\ GraphIsSound(g)
      /\ attempt.parameters = EffectiveParameters(canvas, read) /\ Defined(attempt.parameters)
      /\ attempt.prompt.nodes = Normalized(g, AttemptPrefix)
      /\ Found(attempt.prompt.asked).valid
  BY DEF RevisionIsSound, AttemptIsSound
<1>2. Validation(revision.editor, g, TRUE, attempt.prompt.asked, TRUE).valid
  BY <1>1 DEF Found
<1>3. ApiReads(g)
  BY <1>2, ValidIsRead
<1>4. /\ Clean(g)
      /\ \A f \in MadeFields : MadeBy(Nodes(g), f) = {read[f]}
      /\ FiniteDuration(canvas.duration) => Covers(read.frames.num, Hundredths(canvas.duration))
  BY <1>1, <1>2, <1>3, ValidRunsAsShown
<1>5. /\ \A f \in MadeFields \ {"outputPrefix"} :
           MadeBy(attempt.prompt.nodes, f) = MadeBy(Nodes(g), f)
      /\ MadeBy(attempt.prompt.nodes, "outputPrefix") = {Literal(AttemptPrefix)}
  BY <1>1, <1>4, NormalizedMakes
<1>6. Literal(AttemptPrefix) = AttemptPrefix
  BY LiteralText DEF AttemptPrefix
<1>7. {"width", "height", "frames", "fps"} \subseteq MadeFields
  BY DEF MadeFields, ComparedFields
<1> HIDE DEF g, canvas, read
<1>8. /\ \A f \in MadeFields : attempt.parameters[f] = read[f]
      /\ attempt.parameters.duration = canvas.duration /\ FiniteDuration(canvas.duration)
      /\ IsInteger(read.width) /\ IsInteger(read.height) /\ OnGrid(read.frames)
      /\ read.fps = Num(Fps)
  BY <1>1, ParametersRead
<1>9. /\ attempt.parameters.width = read.width /\ attempt.parameters.height = read.height
      /\ attempt.parameters.frames = read.frames /\ attempt.parameters.fps = read.fps
  BY <1>7, <1>8
<1>10. \A f \in MadeFields \ {"outputPrefix"} :
         MadeBy(attempt.prompt.nodes, f) = {attempt.parameters[f]}
  BY <1>4, <1>5, <1>8
<1> QED
  BY <1>4, <1>5, <1>6, <1>8, <1>9, <1>10 DEF AttemptMakes

-----------------------------------------------------------------------------
(* The graphs *)

LEMMA NodeIsNode ==
  ASSUME NEW class, NEW inputs PROVE IsNode(Node(class, inputs))
BY DEF IsNode, Node

LEMMA WithIsNode ==
  ASSUME NEW node, IsNode(node), NEW inputs PROVE IsNode(With(node, inputs))
<1> DEFINE made == Over(inputs, node.inputs)
<1>1. node = [class |-> node.class, inputs |-> node.inputs]
  BY DEF IsNode, Node
<1>2. With(node, inputs) = [node EXCEPT !.inputs = made]
  BY DEF With
<1> HIDE DEF made
<1>3. With(node, inputs) = [class |-> node.class, inputs |-> made]
  BY <1>1, <1>2
<1> QED
  BY <1>3 DEF IsNode, Node

LEMMA TemplateIsSound ==
  /\ DOMAIN FIXTURE_WORKFLOW = {92} \cup 119 .. 131
  /\ \A i \in DOMAIN FIXTURE_WORKFLOW : IsNode(FIXTURE_WORKFLOW[i])
<1>1. DOMAIN FIXTURE_WORKFLOW = {92} \cup 119 .. 131
  BY DEF FIXTURE_WORKFLOW
<1>2. IsNode(FIXTURE_WORKFLOW[92]) /\ IsNode(FIXTURE_WORKFLOW[119])
  BY NodeIsNode DEF FIXTURE_WORKFLOW
<1>3. IsNode(FIXTURE_WORKFLOW[120]) /\ IsNode(FIXTURE_WORKFLOW[121])
  BY NodeIsNode DEF FIXTURE_WORKFLOW
<1>4. IsNode(FIXTURE_WORKFLOW[122]) /\ IsNode(FIXTURE_WORKFLOW[123])
  BY NodeIsNode DEF FIXTURE_WORKFLOW
<1>5. IsNode(FIXTURE_WORKFLOW[124]) /\ IsNode(FIXTURE_WORKFLOW[125])
  BY NodeIsNode DEF FIXTURE_WORKFLOW
<1>6. IsNode(FIXTURE_WORKFLOW[126]) /\ IsNode(FIXTURE_WORKFLOW[127])
  BY NodeIsNode DEF FIXTURE_WORKFLOW
<1>7. IsNode(FIXTURE_WORKFLOW[128]) /\ IsNode(FIXTURE_WORKFLOW[129])
  BY NodeIsNode DEF FIXTURE_WORKFLOW
<1>8. IsNode(FIXTURE_WORKFLOW[130])
  BY NodeIsNode DEF FIXTURE_WORKFLOW
<1>9. IsNode(FIXTURE_WORKFLOW[131])
  <2> DEFINE inputs == [clip |-> Link(128, 0), vae |-> Link(119, 0), prompt |-> Txt("a product"),
                        width |-> Num(960), height |-> Num(544), length |-> Num(124)]
  <2>1. FIXTURE_WORKFLOW[131] = Node("MiniMaxH3ImageToVideo", inputs)
    BY DEF FIXTURE_WORKFLOW
  <2> HIDE DEF inputs
  <2> QED
    BY <2>1, NodeIsNode
<1>10. \A i \in 119 .. 131 : i \in {119, 120, 121, 122, 123, 124, 125, 126, 127, 128, 129, 130, 131}
  OBVIOUS
<1> QED
  BY <1>1, <1>2, <1>3, <1>4, <1>5, <1>6, <1>7, <1>8, <1>9, <1>10

LEMMA ExportedIsSound ==
  ASSUME NEW e PROVE GraphIsSound(Exported(e))
<1> DEFINE x == Exported(e)
           turbo == Shown(e, 140, 9) = Flag(TRUE)
           lora == IF turbo THEN {134} ELSE {}
           ids == DOMAIN FIXTURE_WORKFLOW \cup lora
<1>1. x = [shape |-> x.shape, nodes |-> x.nodes] /\ DOMAIN x.nodes = ids
  BY DEF Exported
<1>2. ids \subseteq Int /\ IsFiniteSet(ids)
  <2>1. IsFiniteSet({92}) /\ IsFiniteSet({134}) /\ IsFiniteSet({})
    BY FS_Singleton, FS_EmptySet
  <2> DEFINE low == 119
             high == 131
  <2>8. low \in Int /\ high \in Int
    OBVIOUS
  <2> HIDE DEF low, high
  <2>9. IsFiniteSet(low .. high)
    BY <2>8, FS_Interval
  <2> USE DEF low, high
  <2>2. lora = {} \/ lora = {134}
    OBVIOUS
  <2> HIDE DEF lora
  <2>3. IsFiniteSet(lora) /\ lora \subseteq Int
    BY <2>1, <2>2
  <2>4. IsFiniteSet({92} \cup 119 .. 131)
    BY <2>1, <2>9, FS_Union
  <2>5. IsFiniteSet(({92} \cup 119 .. 131) \cup lora)
    BY <2>3, <2>4, FS_Union
  <2>6. ids = ({92} \cup 119 .. 131) \cup lora
    BY TemplateIsSound
  <2> HIDE DEF ids
  <2>7. ids \subseteq Int
    BY <2>3, <2>6
  <2> QED
    BY <2>5, <2>6, <2>7
<1>3. ASSUME NEW i \in ids PROVE IsNode(x.nodes[i])
  <2>1. x.nodes[i] = IF i \in lora THEN Node("LoraLoaderModelOnly", [model |-> Link(127, 0)])
                    ELSE x.nodes[i]
    BY DEF Exported
  <2>2. CASE i \in lora
    BY <2>1, <2>2, NodeIsNode
  <2>3. CASE i \notin lora
    <3>1. \E inputs : x.nodes[i] = With(FIXTURE_WORKFLOW[i], inputs)
      BY <2>3 DEF Exported
    <3> QED
      BY <3>1, <2>3, WithIsNode, TemplateIsSound
  <2> QED
    BY <2>2, <2>3
<1> QED
  BY <1>1, <1>2, <1>3 DEF GraphIsSound

LEMMA EditedIsSound ==
  ASSUME NEW g, GraphIsSound(g), NEW id \in Int, NEW n, IsNode(n)
  PROVE  GraphIsSound([g EXCEPT !.nodes = Over([i \in {id} |-> n], @)])
<1> DEFINE nodes == Over([i \in {id} |-> n], g.nodes)
<1>1. g = [shape |-> g.shape, nodes |-> g.nodes]
  BY DEF GraphIsSound
<1>2. /\ DOMAIN nodes = {id} \cup DOMAIN g.nodes
      /\ \A i \in DOMAIN nodes : nodes[i] = IF i = id THEN n ELSE g.nodes[i]
  BY DEF Over
<1>3. IsFiniteSet({id}) /\ IsFiniteSet(DOMAIN g.nodes) /\ DOMAIN g.nodes \subseteq Int
  BY FS_Singleton DEF GraphIsSound
<1>4. IsFiniteSet({id} \cup DOMAIN g.nodes)
  BY <1>3, FS_Union
<1> HIDE DEF nodes
<1>5. [g EXCEPT !.nodes = nodes] = [shape |-> g.shape, nodes |-> nodes]
  BY <1>1
<1>6. \A i \in DOMAIN nodes : IsNode(nodes[i])
  BY <1>2 DEF GraphIsSound
<1>7. GraphIsSound([shape |-> g.shape, nodes |-> nodes])
  BY <1>2, <1>3, <1>4, <1>6 DEF GraphIsSound
<1> QED
  BY <1>5, <1>7 DEF nodes

LEMMA SetIsSound ==
  ASSUME NEW g, GraphIsSound(g), NEW id \in DOMAIN g.nodes, NEW name, NEW value
  PROVE  GraphIsSound([g EXCEPT !.nodes[id].inputs = Over([k \in {name} |-> value], @)])
<1> DEFINE set == [k \in {name} |-> value]
           nodes == [g.nodes EXCEPT ![id].inputs = Over(set, @)]
           made == Over(set, g.nodes[id].inputs)
<1>1. g = [shape |-> g.shape, nodes |-> g.nodes]
  BY DEF GraphIsSound
<1>2. IsNode(g.nodes[id])
  BY DEF GraphIsSound
<1> HIDE DEF set
<1>3. [g EXCEPT !.nodes[id].inputs = Over(set, @)] = [shape |-> g.shape, nodes |-> nodes]
  BY <1>1
<1>4. /\ DOMAIN nodes = DOMAIN g.nodes
      /\ \A i \in DOMAIN nodes :
           nodes[i] = IF i = id THEN [g.nodes[id] EXCEPT !.inputs = made] ELSE g.nodes[i]
  OBVIOUS
<1> HIDE DEF nodes, made
<1>5. [g.nodes[id] EXCEPT !.inputs = made] = [class |-> g.nodes[id].class, inputs |-> made]
  BY <1>2 DEF IsNode, Node
<1>6. IsNode([class |-> g.nodes[id].class, inputs |-> made])
  BY NodeIsNode DEF Node
<1>7. \A i \in DOMAIN nodes : IsNode(nodes[i])
  BY <1>4, <1>5, <1>6 DEF GraphIsSound
<1>8. GraphIsSound([shape |-> g.shape, nodes |-> nodes])
  BY <1>4, <1>7 DEF GraphIsSound
<1> QED
  BY <1>3, <1>8 DEF set

LEMMA DroppedIsSound ==
  ASSUME NEW g, GraphIsSound(g), NEW id
  PROVE  GraphIsSound([g EXCEPT !.nodes = Restrict(@, DOMAIN @ \ {id})])
<1> DEFINE nodes == Restrict(g.nodes, DOMAIN g.nodes \ {id})
<1>1. [g EXCEPT !.nodes = Restrict(@, DOMAIN @ \ {id})] = [shape |-> g.shape, nodes |-> nodes]
  <2>1. g = [shape |-> g.shape, nodes |-> g.nodes]
    BY DEF GraphIsSound
  <2>2. [g EXCEPT !.nodes = nodes] = [shape |-> g.shape, nodes |-> nodes]
    <3> HIDE DEF nodes
    <3> QED
      BY <2>1
  <2> QED
    BY <2>2
<1>2. /\ DOMAIN nodes = DOMAIN g.nodes \ {id}
      /\ \A i \in DOMAIN nodes : nodes[i] = g.nodes[i]
  BY DEF Restrict
<1>3. IsFiniteSet(DOMAIN g.nodes \ {id})
  BY FS_Subset DEF GraphIsSound
<1> HIDE DEF nodes
<1>4. GraphIsSound([shape |-> g.shape, nodes |-> nodes])
  BY <1>2, <1>3 DEF GraphIsSound
<1> QED
  BY <1>1, <1>4

-----------------------------------------------------------------------------
(* Steps that leave the rows alone *)

LEMMA NotEvaluated ==
  ASSUME attempt' = None \/ attempt'.result = None
  PROVE  OnlyPreviewsAreReviewed'
BY DEF OnlyPreviewsAreReviewed, Evaluated

LEMMA StillReviewed ==
  ASSUME OnlyPreviewsAreReviewed, attempt' = attempt
  PROVE  OnlyPreviewsAreReviewed'
BY DEF OnlyPreviewsAreReviewed, Evaluated, Heard, Undisturbed, Reviewed

LEMMA Unmoved ==
  ASSUME IInv, UNCHANGED <<revision, pending, attempt>>, GraphIsSound(api')
  PROVE  IInv'
<1>1. OnlyPreviewsAreReviewed'
  BY StillReviewed DEF IInv
<1>2. VerdictFitsFingerprint'
  BY DEF IInv, VerdictFitsFingerprint
<1>3. RevisionIsSound'
  BY DEF IInv, RevisionIsSound
<1>4. PendingIsSound'
  BY DEF IInv, PendingIsSound, Found, At
<1>5. AttemptIsSound'
  BY DEF IInv, AttemptIsSound, Found
<1> QED
  BY <1>1, <1>2, <1>3, <1>4, <1>5 DEF IInv

LEMMA CanvasInit == Init => IInv
<1> SUFFICES ASSUME Init PROVE IInv
  OBVIOUS
<1>1. pending = [v \in Validator |-> pending[v]] /\ \A v \in Validator : pending[v] = None
  BY DEF Init
<1>2. GraphIsSound(api)
  BY ExportedIsSound DEF Init
<1>3. revision = None /\ attempt = None
  BY DEF Init
<1> QED
  BY <1>1, <1>2, <1>3 DEF IInv, RevisionIsSound, PendingIsSound, AttemptIsSound,
     VerdictFitsFingerprint, OnlyPreviewsAreReviewed, Evaluated

(* Editing the canvas, the graph and the executor.                          *)
LEMMA EditsKeep ==
  ASSUME IInv,
         \/ \E e \in CanvasEdits : EditCanvas(e)
         \/ \E id \in Droppable : DropCanvasNode(id) \/ DropApiNode(id)
         \/ \E id \in DOMAIN ExtraNode : AddCanvasNode(Plain(id, ExtraNode[id].class))
         \/ \E n \in Range(PinnedEditor.nodes), part \in {"node", "named", "widgets"} :
              BreakNode(n.id, part)
         \/ \E shape \in {"not an object", "too big"} : BreakCanvas(shape)
         \/ Export
         \/ \E e \in ApiEdits : SetInput(e)
         \/ \E id \in DOMAIN ExtraNode : PutApiNode(id, ExtraNode[id])
         \/ \E answer \in Executors : ExecutorChanges(answer)
  PROVE  IInv'
<1>1. UNCHANGED <<revision, pending, attempt>>
  BY DEF EditCanvas, DropCanvasNode, DropApiNode, AddCanvasNode, BreakNode, BreakCanvas,
         Export, SetInput, PutApiNode, ExecutorChanges, EditGraphs
<1>2. \/ api' = api
      \/ api' = Exported(editor)
      \/ \E id \in Droppable :
           api' = [api EXCEPT !.nodes = Restrict(@, DOMAIN @ \ {id})]
      \/ \E e \in ApiEdits :
           /\ e.id \in DOMAIN api.nodes
           /\ api' = [api EXCEPT !.nodes[e.id].inputs = Over([k \in {e.input} |-> e.value], @)]
      \/ \E id \in DOMAIN ExtraNode :
           api' = [api EXCEPT !.nodes = Over([i \in {id} |-> ExtraNode[id]], @)]
  BY DEF EditCanvas, DropCanvasNode, DropApiNode, AddCanvasNode, BreakNode, BreakCanvas,
         Export, SetInput, PutApiNode, ExecutorChanges
<1>3. GraphIsSound(api)
  BY DEF IInv
<1>4. \A id \in DOMAIN ExtraNode : id \in Int /\ IsNode(ExtraNode[id])
  BY CanvasAssumption DEF IsNode
<1>5. GraphIsSound(api')
  <2>1. CASE api' = api
    BY <1>3, <2>1
  <2>2. CASE api' = Exported(editor)
    BY <2>2, ExportedIsSound
  <2>3. ASSUME NEW id \in Droppable,
               api' = [api EXCEPT !.nodes = Restrict(@, DOMAIN @ \ {id})]
        PROVE  GraphIsSound(api')
    BY <1>3, <2>3, DroppedIsSound
  <2>4. ASSUME NEW e \in ApiEdits, e.id \in DOMAIN api.nodes,
               api' = [api EXCEPT !.nodes[e.id].inputs = Over([k \in {e.input} |-> e.value], @)]
        PROVE  GraphIsSound(api')
    BY <1>3, <2>4, SetIsSound
  <2>5. ASSUME NEW id \in DOMAIN ExtraNode,
               api' = [api EXCEPT !.nodes = Over([i \in {id} |-> ExtraNode[id]], @)]
        PROVE  GraphIsSound(api')
    BY <1>3, <1>4, <2>5, EditedIsSound
  <2> QED
    BY <1>2, <2>1, <2>2, <2>3, <2>4, <2>5
<1> QED
  BY <1>1, <1>5, Unmoved

-----------------------------------------------------------------------------
(* Steps of a revision *)

LEMMA CreateKeeps ==
  ASSUME IInv, CreateRevision
  PROVE  IInv'
<1> DEFINE v == Validation(editor, api, TRUE, info, TRUE)
<1>1. /\ revision = None /\ attempt = None
      /\ \A w \in Validator : pending[w] = None
      /\ UNCHANGED <<api, pending, attempt>>
  BY DEF CreateRevision, IInv, AttemptIsSound, PendingIsSound
<1>2. /\ DOMAIN revision' = {"editor", "api", "parameters", "valid", "fingerprint"}
      /\ revision'.editor = editor /\ revision'.api = api
      /\ revision'.parameters = v.effective /\ revision'.valid = v.valid
      /\ revision'.fingerprint = v.fingerprint
  <2> HIDE DEF v
  <2> QED
    BY DEF CreateRevision, v
<1>3. /\ v.effective = EffectiveParameters(EditorValues(Kept(editor)), ApiValues(api))
      /\ v.fingerprint = Fingerprint(info)
  BY ValidationRecord
<1>4. v.valid => /\ {Nodes(api)[i].class : i \in DOMAIN Nodes(api)} \subseteq v.fingerprint.classes
                 /\ \A f \in ModelFields : ModelFile[f] \in v.fingerprint.choices[Loader[f]]
  BY <1>3, ValidFitsExecutor
<1> HIDE DEF v
<1>5. RevisionIsSound'
  BY <1>2, <1>3 DEF RevisionIsSound, IInv
<1>6. PendingIsSound' /\ AttemptIsSound'
  BY <1>1 DEF PendingIsSound, AttemptIsSound
<1>7. VerdictFitsFingerprint'
  BY <1>2, <1>4 DEF VerdictFitsFingerprint
<1>8. OnlyPreviewsAreReviewed'
  BY <1>1, NotEvaluated
<1> QED
  BY <1>1, <1>5, <1>6, <1>7, <1>8 DEF IInv

(* An attempt moves, the revision and what is pending do not.               *)
LEMMA AttemptMoves ==
  ASSUME IInv, UNCHANGED <<api, revision, pending>>, AttemptIsSound', OnlyPreviewsAreReviewed',
         pending["worker"] = None
  PROVE  IInv'
<1>1. RevisionIsSound' /\ VerdictFitsFingerprint'
  BY DEF IInv, RevisionIsSound, VerdictFitsFingerprint
<1>2. PendingIsSound'
  BY DEF IInv, PendingIsSound, Found
<1> QED
  BY <1>1, <1>2 DEF IInv

Fields == {"state", "parameters", "intent", "fingerprint", "failureCode", "prompt", "result"}

LEMMA QueueKeeps ==
  ASSUME IInv, QueueAttempt
  PROVE  IInv'
<1>1. pending["worker"] = None
  BY DEF QueueAttempt, IInv, PendingIsSound, Validator, At
<1>2. /\ revision' = revision /\ revision # None /\ Defined(revision.parameters)
      /\ DOMAIN attempt' = Fields
      /\ attempt'.state = "waiting" /\ attempt'.parameters = revision.parameters
      /\ attempt'.prompt = None /\ attempt'.result = None
  BY DEF QueueAttempt, Fields
<1>3. AttemptIsSound'
  BY <1>2 DEF AttemptIsSound, Fields
<1>4. OnlyPreviewsAreReviewed'
  BY <1>2, NotEvaluated
<1> QED
  BY <1>1, <1>3, <1>4, AttemptMoves DEF QueueAttempt

(* The steps of a worker between its claim and the result: parameters and   *)
(* prompt stay, and there is no result yet.                                 *)
LEMMA AdvanceKeeps ==
  ASSUME IInv, NEW next, Advance(next), attempt # None,
         attempt.state \notin {"intended", "awaiting_review", "failed"},
         DOMAIN next = Fields, next.parameters = attempt.parameters,
         next.prompt = attempt.prompt, next.result = attempt.result,
         next.state = "submitted" => attempt.prompt # None
  PROVE  IInv'
<1>1. /\ attempt' = next /\ UNCHANGED <<api, revision, pending>>
  BY DEF Advance
<1>2. pending["worker"] = None
  BY DEF IInv, PendingIsSound, Validator, At
<1>3. attempt.result = None
  BY DEF IInv, AttemptIsSound
<1>4. OnlyPreviewsAreReviewed'
  BY <1>1, <1>3, NotEvaluated
<1>5. AttemptIsSound'
  BY <1>1, <1>3 DEF IInv, AttemptIsSound, Found, Fields
<1> QED
  BY <1>1, <1>2, <1>4, <1>5, AttemptMoves

LEMMA WorkerKeeps ==
  ASSUME IInv, Claim \/ ReadRevision \/ RecordIntent \/ LookUp \/ Refuse
  PROVE  IInv'
<1>1. /\ attempt # None
      /\ attempt.state \in {"waiting", "claimed", "read", "refused"}
  BY DEF Claim, ReadRevision, RecordIntent, LookUp, Refuse, At
<1>2. DOMAIN attempt = Fields
  BY <1>1 DEF IInv, AttemptIsSound, Fields
<1>3. ASSUME NEW state, Advance(GoesTo(state)), state = "submitted" => attempt.prompt # None
      PROVE  IInv'
  <2>1. /\ DOMAIN GoesTo(state) = Fields /\ GoesTo(state).state = state
        /\ GoesTo(state).parameters = attempt.parameters
        /\ GoesTo(state).prompt = attempt.prompt /\ GoesTo(state).result = attempt.result
    BY <1>2 DEF GoesTo, Fields
  <2> QED
    BY <1>1, <1>3, <2>1, AdvanceKeeps
<1>4. ASSUME NEW code, Advance(RefusedWith(code))
      PROVE  IInv'
  <2>1. /\ DOMAIN RefusedWith(code) = Fields /\ RefusedWith(code).state = "refused"
        /\ RefusedWith(code).parameters = attempt.parameters
        /\ RefusedWith(code).prompt = attempt.prompt
        /\ RefusedWith(code).result = attempt.result
    BY <1>2 DEF RefusedWith, Fields
  <2> QED
    BY <1>1, <1>4, <2>1, AdvanceKeeps
<1>5. CASE Claim
  BY <1>3, <1>5 DEF Claim
<1>6. CASE ReadRevision
  <2>1. CASE Advance(RefusedWith("CAPABILITY_DRIFT"))
    BY <1>4, <2>1
  <2> DEFINE next == [attempt EXCEPT !.state = "read", !.fingerprint = revision.fingerprint]
  <2>2. /\ DOMAIN next = Fields /\ next.state = "read"
        /\ next.parameters = attempt.parameters
        /\ next.prompt = attempt.prompt /\ next.result = attempt.result
    BY <1>2 DEF Fields
  <2>3. CASE Advance(next)
    <3> HIDE DEF next
    <3> QED
      BY <1>1, <2>2, <2>3, AdvanceKeeps
  <2> QED
    BY <1>6, <2>1, <2>3 DEF ReadRevision
<1>7. CASE RecordIntent
  <2> DEFINE next == [attempt EXCEPT !.state = "intended", !.intent = TRUE]
  <2>1. /\ DOMAIN next = Fields /\ next.state = "intended"
        /\ next.parameters = attempt.parameters
        /\ next.prompt = attempt.prompt /\ next.result = attempt.result
    BY <1>2 DEF Fields
  <2>2. Advance(next)
    BY <1>7 DEF RecordIntent
  <2> HIDE DEF next
  <2> QED
    BY <1>1, <2>1, <2>2, AdvanceKeeps
<1>8. CASE LookUp
  BY <1>3, <1>4, <1>8 DEF LookUp
<1>9. CASE Refuse
  BY <1>3, <1>9 DEF Refuse
<1> QED
  BY <1>5, <1>6, <1>7, <1>8, <1>9

(* A worker that ends leaves the rows; what it had found is forgotten.      *)
LEMMA DeathKeeps ==
  ASSUME IInv, WorkerDies
  PROVE  IInv'
<1>1. /\ attempt # None /\ attempt.state \in InHand /\ UNCHANGED <<api, revision>>
      /\ pending' = [pending EXCEPT !["worker"] = None]
      /\ attempt' = [attempt EXCEPT !.state = "waiting", !.fingerprint = None,
                                    !.failureCode = "none"]
  BY DEF WorkerDies
<1>2. DOMAIN attempt = Fields /\ attempt.result = None
  BY <1>1 DEF IInv, AttemptIsSound, Fields, InHand
<1>3. /\ DOMAIN attempt' = Fields /\ attempt'.state = "waiting"
      /\ attempt'.parameters = attempt.parameters
      /\ attempt'.prompt = attempt.prompt /\ attempt'.result = None
  BY <1>1, <1>2 DEF Fields
<1>4. /\ pending' = [w \in Validator |-> pending'[w]] /\ pending'["worker"] = None
      /\ pending'["api"] = pending["api"]
  BY <1>1 DEF IInv, Validator
<1>5. PendingIsSound'
  BY <1>1, <1>4 DEF IInv, PendingIsSound, Validator, Found
<1>6. AttemptIsSound'
  BY <1>1, <1>3 DEF IInv, AttemptIsSound, Found, Fields
<1>7. RevisionIsSound' /\ VerdictFitsFingerprint'
  BY <1>1 DEF IInv, RevisionIsSound, VerdictFitsFingerprint
<1>8. OnlyPreviewsAreReviewed'
  BY <1>3, NotEvaluated
<1> QED
  BY <1>1, <1>4, <1>5, <1>6, <1>7, <1>8 DEF IInv

LEMMA StartKeeps ==
  ASSUME IInv, NEW v \in Validator, StartValidation(v)
  PROVE  IInv'
<1> DEFINE found == Found(info)
<1>1. /\ revision # None /\ Asks(v) /\ UNCHANGED <<api, revision, attempt>>
      /\ pending' = [pending EXCEPT ![v] = [ valid |-> found.valid /\ ~ Drifted(v, found),
                                             fingerprint |-> found.fingerprint, asked |-> info ]]
  BY DEF StartValidation, Found
<1>2. found.fingerprint = Fingerprint(info)
  <2>1. ASSUME NEW e, NEW g
        PROVE  Validation(e, g, TRUE, info, TRUE).fingerprint = Fingerprint(info)
    BY ValidationRecord
  <2> QED
    BY <2>1 DEF Found
<1> DEFINE verdict == [ valid |-> found.valid /\ ~ Drifted(v, found),
                        fingerprint |-> found.fingerprint, asked |-> info ]
<1> HIDE DEF found
<1>3. /\ verdict.valid => found.valid
      /\ verdict.fingerprint = Fingerprint(info) /\ verdict.asked = info
  BY <1>2
<1> HIDE DEF verdict
<1>4. /\ pending' = [w \in Validator |-> pending'[w]] /\ pending'[v] = verdict
      /\ \A w \in Validator : w # v => pending'[w] = pending[w]
  BY <1>1 DEF IInv, verdict
<1>5. PendingIsSound'
  BY <1>1, <1>3, <1>4 DEF IInv, PendingIsSound, Asks, At, Found, found
<1>6. RevisionIsSound' /\ AttemptIsSound' /\ VerdictFitsFingerprint'
  BY <1>1 DEF IInv, RevisionIsSound, AttemptIsSound, VerdictFitsFingerprint, Found
<1>7. OnlyPreviewsAreReviewed'
  BY <1>1, StillReviewed DEF IInv
<1> QED
  BY <1>1, <1>4, <1>5, <1>6, <1>7 DEF IInv

(* The verdict is written; the worker's attempt goes on or is refused.      *)
LEMMA FinishKeeps ==
  ASSUME IInv, NEW v \in Validator, FinishValidation(v)
  PROVE  IInv'
<1> DEFINE verdict == pending[v]
<1>1. /\ pending[v] # None /\ revision # None
      /\ DOMAIN revision = {"editor", "api", "parameters", "valid", "fingerprint"}
      /\ verdict.valid => Found(verdict.asked).valid
      /\ verdict.fingerprint = Fingerprint(verdict.asked)
      /\ v = "worker" => attempt # None /\ attempt.state = "intended"
  BY DEF FinishValidation, IInv, RevisionIsSound, PendingIsSound, At
<1>2. /\ revision' = [revision EXCEPT !.valid = verdict.valid,
                                      !.fingerprint = verdict.fingerprint]
      /\ pending' = [pending EXCEPT ![v] = None]
      /\ UNCHANGED api
  BY DEF FinishValidation
<1> HIDE DEF verdict
<1>3. /\ DOMAIN revision' = DOMAIN revision
      /\ revision'.valid = verdict.valid /\ revision'.fingerprint = verdict.fingerprint
      /\ revision'.editor = revision.editor /\ revision'.api = revision.api
      /\ revision'.parameters = revision.parameters
  BY <1>1, <1>2
<1>4. revision' # None
  BY <1>1, <1>3 DEF None
<1>5. \A asked : Found(asked)' = Found(asked)
  BY <1>3 DEF Found
<1>6. /\ pending' = [w \in Validator |-> pending'[w]] /\ pending'[v] = None
      /\ \A w \in Validator : w # v => pending'[w] = pending[w]
  BY <1>2 DEF IInv
<1>7. RevisionIsSound'
  BY <1>1, <1>3 DEF IInv, RevisionIsSound
<1>8. VerdictFitsFingerprint'
  <2>1. ASSUME verdict.valid
        PROVE  Validation(revision.editor, revision.api, TRUE, verdict.asked, TRUE).valid
    BY <1>1, <2>1 DEF Found
  <2>2. ASSUME verdict.valid
        PROVE  /\ {Nodes(revision.api)[i].class : i \in DOMAIN Nodes(revision.api)}
                    \subseteq Fingerprint(verdict.asked).classes
               /\ \A f \in ModelFields :
                    ModelFile[f] \in Fingerprint(verdict.asked).choices[Loader[f]]
    BY <2>1, <2>2, ValidFitsExecutor
  <2> QED
    BY <1>1, <1>3, <2>2 DEF VerdictFitsFingerprint
<1>9. CASE v = "api"
  <2>1. attempt' = attempt
    BY <1>9 DEF FinishValidation, AfterVerdict
  <2>2. PendingIsSound'
    BY <1>4, <1>5, <1>6, <2>1 DEF IInv, PendingIsSound, At
  <2>3. AttemptIsSound'
    BY <1>3, <1>4, <1>5, <2>1 DEF IInv, AttemptIsSound
  <2>4. OnlyPreviewsAreReviewed'
    BY <2>1, StillReviewed DEF IInv
  <2> QED
    BY <1>6, <1>2, <1>7, <1>8, <2>2, <2>3, <2>4 DEF IInv
<1>10. CASE v = "worker"
  <2>1. attempt' = IF verdict.valid THEN Submitted(verdict.asked)
                   ELSE RefusedWith("CAPABILITY_DRIFT")
    BY <1>10 DEF FinishValidation, AfterVerdict, verdict
  <2>2. /\ DOMAIN attempt = Fields /\ attempt.result = None
        /\ attempt.parameters = revision.parameters /\ Defined(attempt.parameters)
        /\ attempt.prompt # None =>
             /\ attempt.prompt.nodes = Normalized(revision.api, AttemptPrefix)
             /\ Found(attempt.prompt.asked).valid
    BY <1>1, <1>10 DEF IInv, AttemptIsSound, Fields
  <2>3. PendingIsSound'
    BY <1>4, <1>5, <1>6, <1>10 DEF IInv, PendingIsSound, Validator
  <2>4. Normalized(revision.api, AttemptPrefix)' = Normalized(revision.api, AttemptPrefix)
    BY <1>3 DEF Normalized, AttemptPrefix, With, Txt
  <2>5. AttemptIsSound' /\ attempt'.result = None
    <3>1. CASE verdict.valid
      <4> DEFINE prompt == [nodes |-> Normalized(revision.api, AttemptPrefix),
                            asked |-> verdict.asked]
      <4>1. /\ prompt.nodes = Normalized(revision.api, AttemptPrefix)
            /\ prompt.asked = verdict.asked
        OBVIOUS
      <4>2. prompt # None
        <5>1. "nodes" \in DOMAIN prompt /\ "nodes" \notin DOMAIN None
          BY DEF None
        <5> QED
          BY <5>1
      <4>3. attempt' = [attempt EXCEPT !.state = "submitted", !.prompt = prompt]
        BY <2>1, <3>1 DEF Submitted
      <4> HIDE DEF prompt
      <4>4. /\ DOMAIN attempt' = Fields /\ attempt'.state = "submitted"
            /\ attempt'.parameters = attempt.parameters
            /\ attempt'.prompt = prompt /\ attempt'.result = None
        BY <2>2, <4>3 DEF Fields
      <4> QED
        BY <1>1, <1>3, <1>4, <1>5, <2>2, <2>4, <3>1, <4>1, <4>2, <4>4
        DEF AttemptIsSound, Fields
    <3>2. CASE ~ verdict.valid
      <4>1. attempt' = [attempt EXCEPT !.state = "refused",
                                       !.failureCode = "CAPABILITY_DRIFT"]
        BY <2>1, <3>2 DEF RefusedWith
      <4>2. /\ DOMAIN attempt' = Fields /\ attempt'.state = "refused"
            /\ attempt'.parameters = attempt.parameters
            /\ attempt'.prompt = attempt.prompt /\ attempt'.result = None
        BY <2>2, <4>1 DEF Fields
      <4> QED
        BY <1>3, <1>4, <1>5, <2>2, <2>4, <4>2 DEF AttemptIsSound, Fields
    <3> QED
      BY <3>1, <3>2
  <2>6. OnlyPreviewsAreReviewed'
    BY <2>5, NotEvaluated
  <2> QED
    BY <1>6, <1>2, <1>7, <1>8, <2>3, <2>5, <2>6 DEF IInv
<1> QED
  BY <1>9, <1>10 DEF Validator

-----------------------------------------------------------------------------
(* What an evaluation lets through *)

LEMMA FirstOfTen ==
  ASSUME NEW S \in SUBSET (1 .. 10), S # {}
  PROVE  Min(S) \in S
<1>1. \E a \in S : \A b \in S : a <= b
  <2> SUFFICES ASSUME \A a \in S : \E b \in S : b < a PROVE FALSE
    OBVIOUS
  <2>1. 1 \notin S
    OBVIOUS
  <2>2. 2 \notin S
    BY <2>1
  <2>3. 3 \notin S
    BY <2>1, <2>2
  <2>4. 4 \notin S
    BY <2>1, <2>2, <2>3
  <2>5. 5 \notin S
    BY <2>1, <2>2, <2>3, <2>4
  <2>6. 6 \notin S
    BY <2>1, <2>2, <2>3, <2>4, <2>5
  <2>7. 7 \notin S
    BY <2>1, <2>2, <2>3, <2>4, <2>5, <2>6
  <2>8. 8 \notin S
    BY <2>1, <2>2, <2>3, <2>4, <2>5, <2>6, <2>7
  <2>9. 9 \notin S
    BY <2>1, <2>2, <2>3, <2>4, <2>5, <2>6, <2>7, <2>8
  <2>10. 10 \notin S
    BY <2>1, <2>2, <2>3, <2>4, <2>5, <2>6, <2>7, <2>8, <2>9
  <2>11. \A i \in 1 .. 10 : i \in {1, 2, 3, 4, 5, 6, 7, 8, 9, 10}
    OBVIOUS
  <2>12. PICK i \in S : TRUE
    OBVIOUS
  <2>13. i \in {1, 2, 3, 4, 5, 6, 7, 8, 9, 10}
    BY <2>11
  <2> QED
    BY <2>1, <2>2, <2>3, <2>4, <2>5, <2>6, <2>7, <2>8, <2>9, <2>10, <2>12, <2>13
<1> QED
  BY <1>1 DEF Min

LEMMA NamedFailures ==
  /\ DOMAIN Failures = 1 .. 10
  /\ \A i \in 1 .. 10 : Failures[i][2] # "none"
  /\ Failures[1][1] = "file_readable" /\ Failures[2][1] = "checksum"
  /\ Failures[3][1] = "byte_size" /\ Failures[4][1] = "container"
  /\ Failures[5][1] = "video_stream" /\ Failures[6][1] = "dimensions"
  /\ Failures[7][1] = "duration" /\ Failures[8][1] = "frame_rate"
  /\ Failures[9][1] = "decoder" /\ Failures[10][1] = "motion"
BY DEF Failures

CheckNames == {"file_readable", "checksum", "byte_size", "container", "video_stream",
               "dimensions", "duration", "frame_rate", "decoder", "motion"}

(* There is a code exactly when a check failed.                             *)
LEMMA CodeOfFailure ==
  ASSUME NEW checks
  PROVE  FirstFailureCode(checks) = "none" <=> \A name \in CheckNames : ~ Failed(checks, name)
<1> DEFINE failed == {i \in DOMAIN Failures : Failed(checks, Failures[i][1])}
<1>1. FirstFailureCode(checks) = IF failed = {} THEN "none" ELSE Failures[Min(failed)][2]
  BY DEF FirstFailureCode
<1>2. failed \in SUBSET (1 .. 10)
  BY NamedFailures
<1>3. failed = {} <=> \A i \in 1 .. 10 : ~ Failed(checks, Failures[i][1])
  BY NamedFailures
<1>4. (\A i \in 1 .. 10 : ~ Failed(checks, Failures[i][1]))
        <=> \A name \in CheckNames : ~ Failed(checks, name)
  <2>1. ASSUME \A i \in 1 .. 10 : ~ Failed(checks, Failures[i][1])
        PROVE  \A name \in CheckNames : ~ Failed(checks, name)
    <3>1. \A name \in CheckNames : \E i \in 1 .. 10 : Failures[i][1] = name
      BY NamedFailures DEF CheckNames
    <3> QED
      BY <2>1, <3>1
  <2>2. \A i \in 1 .. 10 : Failures[i][1] \in CheckNames
    <3>1. \A i \in 1 .. 10 : i \in {1, 2, 3, 4, 5, 6, 7, 8, 9, 10}
      OBVIOUS
    <3> QED
      BY <3>1, NamedFailures DEF CheckNames
  <2> QED
    BY <2>1, <2>2
<1> HIDE DEF failed
<1>5. failed # {} => Failures[Min(failed)][2] # "none"
  BY <1>2, FirstOfTen, NamedFailures
<1> QED
  BY <1>1, <1>3, <1>4, <1>5

LEMMA OverEntry ==
  ASSUME NEW f, NEW g, NEW x
  PROVE  /\ x \in DOMAIN Over(f, g) <=> x \in DOMAIN f \/ x \in DOMAIN g
         /\ x \in DOMAIN f => Over(f, g)[x] = f[x]
         /\ x \in DOMAIN g /\ x \notin DOMAIN f => Over(f, g)[x] = g[x]
BY DEF Over

(* The checks of a file the tools could not get.                            *)
LEMMA UninspectedFails ==
  ASSUME NEW clip, NEW expected, NEW read
  PROVE  Evaluation(clip, expected, FALSE, read).status # "passed"
<1> DEFINE checks == Over(BytesChecks(clip), Uninspected)
<1>1. "decoder" \notin DOMAIN BytesChecks(clip)
  BY DEF BytesChecks
<1>2. "decoder" \in DOMAIN Uninspected /\ Uninspected["decoder"] = "failed"
  BY DEF Uninspected
<1>3. Failed(checks, "decoder")
  BY <1>1, <1>2, OverEntry DEF Failed
<1>4. Evaluation(clip, expected, FALSE, read).status =
        IF FirstFailureCode(checks) = "none" THEN "passed" ELSE "failed"
  BY DEF Evaluation
<1> HIDE DEF checks
<1>5. FirstFailureCode(checks) # "none"
  BY <1>3, CodeOfFailure DEF CheckNames
<1> QED
  BY <1>4, <1>5

(* What each check of an inspected file asks for.                           *)
Probed(clip, json) == json /\ clip.bytes # "empty"

Passes(clip, expected, read) ==
  /\ clip.bytes # "empty" /\ clip.sha = TRUE /\ clip.size = TRUE
  /\ read.json = TRUE /\ clip.container = "mp4" /\ clip.video = TRUE
  /\ clip.width = expected.width /\ clip.height = expected.height
  /\ Lasts(clip.duration, expected) /\ RunsAt(clip.rate, expected.fps)
  /\ clip.decodes = TRUE /\ read.decoded = TRUE
  /\ read.analysed = TRUE /\ HasMotionEvidence(read.says)

Inspection(clip, expected, read) ==
  Over(BytesChecks(clip),
       Over(ProbeChecks(clip, read.json, expected), FfmpegChecks(clip, read)))

LEMMA Checked ==
  ASSUME NEW clip, NEW expected, NEW read,
         clip.sha \in BOOLEAN, clip.size \in BOOLEAN, clip.video \in BOOLEAN,
         clip.decodes \in BOOLEAN, read.json \in BOOLEAN,
         read.decoded \in BOOLEAN, read.analysed \in BOOLEAN
  PROVE  (\A name \in CheckNames : ~ Failed(Inspection(clip, expected, read), name))
           <=> Passes(clip, expected, read)
<1> DEFINE bytes == BytesChecks(clip)
           probe == ProbeChecks(clip, read.json, expected)
           ffmpeg == FfmpegChecks(clip, read)
           checks == Inspection(clip, expected, read)
<1>1. /\ bytes["file_readable"] = Verdict(clip.bytes # "empty")
      /\ bytes["checksum"] = Verdict(clip.sha) /\ bytes["byte_size"] = Verdict(clip.size)
      /\ {"file_readable", "checksum", "byte_size"} \subseteq DOMAIN bytes
      /\ "container" \notin DOMAIN bytes /\ "video_stream" \notin DOMAIN bytes
      /\ "dimensions" \notin DOMAIN bytes /\ "duration" \notin DOMAIN bytes
      /\ "frame_rate" \notin DOMAIN bytes /\ "decoder" \notin DOMAIN bytes
      /\ "motion" \notin DOMAIN bytes
  BY DEF BytesChecks
<1>2. /\ {"container", "video_stream", "dimensions", "duration", "frame_rate"} \subseteq DOMAIN probe
      /\ "decoder" \notin DOMAIN probe /\ "motion" \notin DOMAIN probe
      /\ probe["container"] = Verdict(Probed(clip, read.json) /\ clip.container = "mp4")
      /\ probe["video_stream"] = Verdict(Probed(clip, read.json) /\ clip.video)
      /\ probe["dimensions"] = Verdict(/\ Probed(clip, read.json) /\ clip.video
                                       /\ clip.width = expected.width
                                       /\ clip.height = expected.height)
      /\ probe["duration"] = Verdict(Probed(clip, read.json) /\ Lasts(clip.duration, expected))
      /\ probe["frame_rate"] = Verdict(/\ Probed(clip, read.json) /\ clip.video
                                       /\ RunsAt(clip.rate, expected.fps))
  BY DEF ProbeChecks, Probed
<1>3. /\ "decoder" \in DOMAIN ffmpeg /\ "motion" \in DOMAIN ffmpeg
      /\ ffmpeg["decoder"] = Verdict(clip.bytes # "empty" /\ clip.decodes /\ read.decoded)
      /\ ffmpeg["motion"] = Verdict(/\ clip.bytes # "empty" /\ read.analysed
                                    /\ HasMotionEvidence(read.says))
  BY DEF FfmpegChecks
<1>4. checks = Over(bytes, Over(probe, ffmpeg))
  BY DEF Inspection
<1> HIDE DEF bytes, probe, ffmpeg, checks
<1>5. /\ \A name \in {"file_readable", "checksum", "byte_size"} :
           name \in DOMAIN checks /\ checks[name] = bytes[name]
      /\ \A name \in {"container", "video_stream", "dimensions", "duration", "frame_rate"} :
           name \in DOMAIN checks /\ checks[name] = probe[name]
      /\ \A name \in {"decoder", "motion"} :
           name \in DOMAIN checks /\ checks[name] = ffmpeg[name]
  BY <1>1, <1>2, <1>3, <1>4, OverEntry
<1>6. /\ ~ Failed(checks, "file_readable") <=> clip.bytes # "empty"
      /\ ~ Failed(checks, "checksum") <=> clip.sha
      /\ ~ Failed(checks, "byte_size") <=> clip.size
  BY <1>1, <1>5 DEF Failed, Verdict
<1>7. /\ ~ Failed(checks, "container") <=> Probed(clip, read.json) /\ clip.container = "mp4"
      /\ ~ Failed(checks, "video_stream") <=> Probed(clip, read.json) /\ clip.video
      /\ ~ Failed(checks, "dimensions") <=> /\ Probed(clip, read.json) /\ clip.video
                                            /\ clip.width = expected.width
                                            /\ clip.height = expected.height
      /\ ~ Failed(checks, "duration") <=> Probed(clip, read.json) /\ Lasts(clip.duration, expected)
      /\ ~ Failed(checks, "frame_rate") <=> /\ Probed(clip, read.json) /\ clip.video
                                            /\ RunsAt(clip.rate, expected.fps)
  BY <1>2, <1>5 DEF Failed, Verdict
<1>8. /\ ~ Failed(checks, "decoder") <=>
           clip.bytes # "empty" /\ clip.decodes /\ read.decoded
      /\ ~ Failed(checks, "motion") <=> /\ clip.bytes # "empty" /\ read.analysed
                                        /\ HasMotionEvidence(read.says)
  BY <1>3, <1>5 DEF Failed, Verdict
<1>9. (\A name \in CheckNames : ~ Failed(checks, name)) <=> Passes(clip, expected, read)
  <2>1. (\A name \in CheckNames : ~ Failed(checks, name)) <=>
          /\ ~ Failed(checks, "file_readable") /\ ~ Failed(checks, "checksum")
          /\ ~ Failed(checks, "byte_size") /\ ~ Failed(checks, "container")
          /\ ~ Failed(checks, "video_stream") /\ ~ Failed(checks, "dimensions")
          /\ ~ Failed(checks, "duration") /\ ~ Failed(checks, "frame_rate")
          /\ ~ Failed(checks, "decoder") /\ ~ Failed(checks, "motion")
    BY DEF CheckNames
  <2> QED
    BY <1>6, <1>7, <1>8, <2>1 DEF Passes, Probed
<1> QED
  BY <1>9 DEF checks

AnswersAreBoolean(clip, read) ==
  /\ clip.sha \in BOOLEAN /\ clip.size \in BOOLEAN /\ clip.video \in BOOLEAN
  /\ clip.decodes \in BOOLEAN /\ read.json \in BOOLEAN
  /\ read.decoded \in BOOLEAN /\ read.analysed \in BOOLEAN

LEMMA InspectedPasses ==
  ASSUME NEW clip, NEW expected, NEW read, AnswersAreBoolean(clip, read)
  PROVE  Evaluation(clip, expected, TRUE, read).status = "passed" <=> Passes(clip, expected, read)
<1>1. Evaluation(clip, expected, TRUE, read).status =
        IF FirstFailureCode(Inspection(clip, expected, read)) = "none" THEN "passed" ELSE "failed"
  BY DEF Evaluation, Inspection
<1> DEFINE checks == Inspection(clip, expected, read)
<1>2. FirstFailureCode(checks) = "none" <=> \A name \in CheckNames : ~ Failed(checks, name)
  BY CodeOfFailure
<1>3. (\A name \in CheckNames : ~ Failed(checks, name)) <=> Passes(clip, expected, read)
  BY Checked DEF AnswersAreBoolean
<1> HIDE DEF checks
<1> QED
  BY <1>1, <1>2, <1>3 DEF checks

-----------------------------------------------------------------------------
(* The clip of an attempt *)

RenderedFields == {"bytes", "sha", "size", "container", "video", "width", "height", "rate",
                   "duration", "audio", "decodes", "says"}

Clip(rendered, blemish) == Over(blemish, Over(rendered, [blemish |-> blemish]))

LEMMA ClipFields ==
  ASSUME NEW rendered, DOMAIN rendered = RenderedFields, NEW b \in Blemishes
  PROVE  /\ Clip(rendered, b).blemish = b
         /\ \A x \in DOMAIN b : Clip(rendered, b)[x] = b[x]
         /\ \A x \in RenderedFields \ DOMAIN b : Clip(rendered, b)[x] = rendered[x]
<1> DEFINE inner == Over(rendered, [blemish |-> b])
<1>1. DOMAIN b \subseteq RenderedFields /\ "blemish" \notin RenderedFields
  BY CanvasAssumption DEF RenderedFields
<1>2. inner["blemish"] = b /\ "blemish" \in DOMAIN inner
  BY <1>1, OverEntry
<1>3. \A x \in RenderedFields : x \in DOMAIN inner /\ inner[x] = rendered[x]
  BY OverEntry
<1>4. Clip(rendered, b) = Over(b, inner)
  BY DEF Clip
<1> HIDE DEF inner
<1> QED
  BY <1>1, <1>2, <1>3, <1>4, OverEntry

(* What the executor renders of what an attempt records.                    *)
IsRenderedOf(clip, asked) ==
  /\ DOMAIN clip = RenderedFields
  /\ clip.bytes = "whole" /\ clip.sha = TRUE /\ clip.size = TRUE /\ clip.container = "mp4"
  /\ clip.video = TRUE /\ clip.decodes = TRUE /\ clip.says = {}
  /\ clip.rate = <<24, 1>> /\ clip.duration = 100 * asked.frames.num
  /\ clip.width = asked.width.num /\ clip.height = asked.height.num

LEMMA RenderedAsRecorded ==
  ASSUME AttemptMakes
  PROVE  /\ IsRenderedOf(Rendered(attempt.prompt.nodes), attempt.parameters)
         /\ OnGrid(attempt.parameters.frames)
<1> DEFINE asked == attempt.parameters
<1>1. {"width", "height", "frames", "fps"} \subseteq MadeFields \ {"outputPrefix"}
  BY DEF MadeFields, ComparedFields
<1>2. \A f \in MadeFields \ {"outputPrefix"} : Made(attempt.prompt.nodes, f) = asked[f]
  BY DEF AttemptMakes, Made
<1>3. /\ Made(attempt.prompt.nodes, "width") = asked.width
      /\ Made(attempt.prompt.nodes, "height") = asked.height
      /\ Made(attempt.prompt.nodes, "frames") = asked.frames
      /\ Made(attempt.prompt.nodes, "fps") = asked.fps
  BY <1>1, <1>2
<1>4. asked.fps = Num(Fps) /\ OnGrid(asked.frames)
  BY DEF AttemptMakes
<1>5. asked.fps.num = 24 /\ asked.frames.num \in Int
  BY <1>4 DEF Num, Fps, OnGrid, IsInteger
<1> HIDE DEF asked
<1>6. (Ticks * asked.frames.num) \div 24 = 100 * asked.frames.num
  BY <1>5 DEF Ticks
<1>7. Rendered(attempt.prompt.nodes) =
        [ bytes |-> "whole", sha |-> TRUE, size |-> TRUE, container |-> "mp4",
          video |-> TRUE, width |-> asked.width.num, height |-> asked.height.num,
          rate |-> <<24, 1>>, duration |-> 100 * asked.frames.num,
          audio |-> TRUE, decodes |-> TRUE, says |-> {} ]
  BY <1>3, <1>5, <1>6 DEF Rendered
<1> QED
  BY <1>4, <1>7 DEF IsRenderedOf, RenderedFields, asked

(* A clip that passes has no blemish but one of its size or length, unless  *)
(* what the detectors said of it was not read.                              *)
LEMMA PassedIsClean ==
  ASSUME NEW rendered, NEW asked, IsRenderedOf(rendered, asked), NEW b \in Blemishes, NEW read,
         Passes(Clip(rendered, b), Preview, read)
  PROVE  DOMAIN b \subseteq Measures \cup
           (IF read.says = Clip(rendered, b).says THEN {} ELSE {"says"})
<1> DEFINE clip == Clip(rendered, b)
<1>1. \A x \in DOMAIN b : clip[x] = b[x]
  BY ClipFields DEF IsRenderedOf
<1>2. /\ clip.bytes # "empty" /\ clip.sha = TRUE /\ clip.size = TRUE
      /\ clip.container = "mp4" /\ clip.video = TRUE /\ RunsAt(clip.rate, Fps)
      /\ clip.decodes = TRUE /\ HasMotionEvidence(read.says)
  BY DEF Passes, Preview, Fps
<1> HIDE DEF clip
<1>3. /\ "bytes" \notin DOMAIN b /\ "sha" \notin DOMAIN b /\ "size" \notin DOMAIN b
      /\ "container" \notin DOMAIN b /\ "video" \notin DOMAIN b
  BY <1>1, <1>2, CanvasAssumption
<1>4. "rate" \notin DOMAIN b /\ "decodes" \notin DOMAIN b
  BY <1>1, <1>2, CanvasAssumption
<1>5. read.says = clip.says => "says" \notin DOMAIN b
  BY <1>1, <1>2, CanvasAssumption
<1>6. DOMAIN b \subseteq {"bytes", "sha", "size", "container", "video", "width", "height",
                         "rate", "duration", "decodes", "says"}
  BY CanvasAssumption
<1>7. DOMAIN b \subseteq Measures \cup {"says"}
  BY <1>3, <1>4, <1>6 DEF Measures
<1> QED
  BY <1>5, <1>7 DEF clip

(* The length of a clip is a number, and the checks see booleans.           *)
LEMMA ClipTypes ==
  ASSUME NEW rendered, NEW asked, IsRenderedOf(rendered, asked), OnGrid(asked.frames),
         NEW b \in Blemishes
  PROVE  /\ Clip(rendered, b).sha \in BOOLEAN /\ Clip(rendered, b).size \in BOOLEAN
         /\ Clip(rendered, b).video \in BOOLEAN /\ Clip(rendered, b).decodes \in BOOLEAN
         /\ Clip(rendered, b).duration \in Int
<1> DEFINE clip == Clip(rendered, b)
<1>1. \A x \in DOMAIN b : clip[x] = b[x]
  BY ClipFields DEF IsRenderedOf
<1>2. \A x \in RenderedFields \ DOMAIN b : clip[x] = rendered[x]
  BY ClipFields DEF IsRenderedOf
<1> HIDE DEF clip
<1>3. {"sha", "size", "video", "decodes", "duration"} \subseteq RenderedFields
  BY DEF RenderedFields
<1>4. clip.sha \in BOOLEAN
  BY <1>1, <1>2, <1>3, CanvasAssumption DEF IsRenderedOf
<1>5. clip.size \in BOOLEAN
  BY <1>1, <1>2, <1>3, CanvasAssumption DEF IsRenderedOf
<1>6. clip.video \in BOOLEAN
  BY <1>1, <1>2, <1>3, CanvasAssumption DEF IsRenderedOf
<1>7. clip.decodes \in BOOLEAN
  BY <1>1, <1>2, <1>3, CanvasAssumption DEF IsRenderedOf
<1>8. clip.duration \in Int
  <2>1. CASE "duration" \in DOMAIN b
    BY <1>1, <2>1, CanvasAssumption
  <2>2. CASE "duration" \notin DOMAIN b
    <3>1. clip.duration = 100 * asked.frames.num
      BY <1>2, <1>3, <2>2 DEF IsRenderedOf
    <3> QED
      BY <3>1 DEF OnGrid, IsInteger
  <2> QED
    BY <2>1, <2>2
<1> QED
  BY <1>4, <1>5, <1>6, <1>7, <1>8 DEF clip

(* Of the lengths of the grid, the evaluation takes one.                    *)
LEMMA OneLength ==
  ASSUME NEW f \in Int, f >= 5, (f - 5) % 17 = 0
  PROVE  Lasts(100 * f, Preview) <=> f = 124
<1>1. PICK k \in Int : f = 17 * k + 5
  <2>1. f = 17 * ((f - 5) \div 17) + 5 /\ (f - 5) \div 17 \in Int
    OBVIOUS
  <2> QED
    BY <2>1
<1>2. Lasts(100 * f, Preview) <=> Distance(100 * f, 12000) <= 600
  BY DEF Lasts, Preview, Ticks
<1>3. Distance(100 * f, 12000) <= 600 <=> 100 * f <= 12600 /\ 100 * f >= 11400
  BY DEF Distance
<1>4. f <= 126 /\ f >= 114 <=> f = 124
  BY <1>1
<1> QED
  BY <1>2, <1>3, <1>4

(* A clip as rendered passes exactly when it is the preview.                *)
LEMMA RenderedPasses ==
  ASSUME NEW rendered, NEW asked, IsRenderedOf(rendered, asked), OnGrid(asked.frames),
         NEW b \in Blemishes, b = <<>>, NEW read, read = ReadWhole(Clip(rendered, b))
  PROVE  Passes(Clip(rendered, b), Preview, read) <=>
           asked.width.num = 960 /\ asked.height.num = 544 /\ asked.frames.num = 124
<1> DEFINE clip == Clip(rendered, b)
<1>1. \A x \in RenderedFields : clip[x] = rendered[x]
  BY ClipFields DEF IsRenderedOf
<1> HIDE DEF clip
<1>2. /\ clip.bytes = "whole" /\ clip.sha = TRUE /\ clip.size = TRUE /\ clip.container = "mp4"
      /\ clip.video = TRUE /\ clip.decodes = TRUE /\ clip.says = {}
      /\ clip.rate = <<24, 1>> /\ clip.duration = 100 * asked.frames.num
      /\ clip.width = asked.width.num /\ clip.height = asked.height.num
  BY <1>1 DEF IsRenderedOf, RenderedFields
<1>3. read.json = TRUE /\ read.decoded = TRUE /\ read.analysed = TRUE /\ read.says = {}
  BY <1>2 DEF ReadWhole, clip
<1>4. HasMotionEvidence({})
  BY DEF HasMotionEvidence
<1>5. RunsAt(<<24, 1>>, 24)
  BY DEF RunsAt, Distance
<1>6. Preview.width = 960 /\ Preview.height = 544 /\ Preview.fps = 24
  BY DEF Preview
<1>7. Lasts(100 * asked.frames.num, Preview) <=> asked.frames.num = 124
  BY OneLength DEF OnGrid, IsInteger
<1>8. Passes(clip, Preview, read) <=>
        asked.width.num = 960 /\ asked.height.num = 544 /\ Lasts(100 * asked.frames.num, Preview)
  <2>1. HasMotionEvidence(read.says)
    BY <1>3, <1>4
  <2>2. RunsAt(clip.rate, Preview.fps)
    BY <1>2, <1>5, <1>6
  <2>3. /\ clip.bytes # "empty" /\ clip.sha = TRUE /\ clip.size = TRUE
        /\ read.json = TRUE /\ clip.container = "mp4" /\ clip.video = TRUE
        /\ clip.decodes = TRUE /\ read.decoded = TRUE /\ read.analysed = TRUE
    BY <1>2, <1>3
  <2>4. Lasts(clip.duration, Preview) <=> Lasts(100 * asked.frames.num, Preview)
    BY <1>2
  <2>5. /\ clip.width = Preview.width <=> asked.width.num = 960
        /\ clip.height = Preview.height <=> asked.height.num = 544
    BY <1>2, <1>6
  <2> QED
    BY <2>1, <2>2, <2>3, <2>4, <2>5 DEF Passes
<1> QED
  BY <1>7, <1>8 DEF clip

-----------------------------------------------------------------------------
(* The end of an attempt *)

LEMMA EvaluationCode ==
  ASSUME NEW clip, NEW expected, NEW written, NEW read
  PROVE  LET found == Evaluation(clip, expected, written, read)
         IN /\ found.code = FirstFailureCode(found.checks)
            /\ found.status = IF found.code = "none" THEN "passed" ELSE "failed"
BY DEF Evaluation

(* What the runs of the tools came to: yes or no, but for the report.       *)
RunsEnd(read) == read.json \in BOOLEAN /\ read.decoded \in BOOLEAN /\ read.analysed \in BOOLEAN

LEMMA ToolRunsEnd ==
  ASSUME NEW clip
  PROVE  RunsEnd(ReadWhole(clip)) /\ \A read \in ToolRuns(clip) : RunsEnd(read)
BY DEF RunsEnd, ReadWhole, ToolRuns

LEMMA FinishedIsReviewed ==
  ASSUME NEW rendered, NEW b \in Blemishes, NEW written \in BOOLEAN, NEW read,
         RunsEnd(read), AttemptMakes, rendered = Rendered(attempt.prompt.nodes),
         DOMAIN attempt = Fields, FinishSuccess(Clip(rendered, b), written, read)
  PROVE  /\ OnlyPreviewsAreReviewed'
         /\ DOMAIN attempt' = Fields /\ attempt'.state \in {"awaiting_review", "failed"}
         /\ attempt'.parameters = attempt.parameters /\ attempt'.prompt = attempt.prompt
<1> DEFINE clip == Clip(rendered, b)
           asked == attempt.parameters
           found == Evaluation(clip, Preview, written, read)
           result == [clip |-> clip, written |-> written, read |-> read, evaluation |-> found]
           preview == asked.width.num = 960 /\ asked.height.num = 544 /\ asked.frames.num = 124
<1>1. IsRenderedOf(rendered, asked) /\ OnGrid(asked.frames)
  BY RenderedAsRecorded
<1>2. clip.blemish = b
  BY <1>1, ClipFields DEF IsRenderedOf
<1>3. /\ clip.sha \in BOOLEAN /\ clip.size \in BOOLEAN /\ clip.video \in BOOLEAN
      /\ clip.decodes \in BOOLEAN /\ clip.duration \in Int
  BY <1>1, ClipTypes
<1>4. /\ found.code = FirstFailureCode(found.checks)
      /\ found.status = IF found.code = "none" THEN "passed" ELSE "failed"
  BY EvaluationCode
<1>5. /\ DOMAIN attempt' = Fields
      /\ attempt'.state = IF found.status = "passed" THEN "awaiting_review" ELSE "failed"
      /\ attempt'.parameters = asked /\ attempt'.prompt = attempt.prompt
      /\ attempt'.result = result /\ attempt'.failureCode = found.code
  <2>1. attempt' = [attempt EXCEPT
                      !.state = IF found.status = "passed" THEN "awaiting_review" ELSE "failed",
                      !.failureCode = found.code, !.result = result]
    <3> HIDE DEF clip, found
    <3> QED
      BY DEF FinishSuccess, Advance, clip, found
  <2> HIDE DEF clip, found, result
  <2> QED
    BY <2>1 DEF Fields
<1>6. ASSUME written
      PROVE  found.status = "passed" <=> Passes(clip, Preview, read)
  <2>1. Evaluation(clip, Preview, TRUE, read).status = "passed" <=> Passes(clip, Preview, read)
    <3>1. AnswersAreBoolean(clip, read)
      BY <1>3 DEF AnswersAreBoolean, RunsEnd
    <3> HIDE DEF clip
    <3> QED
      BY <3>1, InspectedPasses
  <2>2. written = TRUE
    BY <1>6
  <2> QED
    BY <2>1, <2>2
<1>7. ASSUME ~ written
      PROVE  found.status # "passed"
  BY <1>7, UninspectedFails
<1>8. found.status = "passed" => Passes(clip, Preview, read)
  BY <1>6, <1>7
<1>9. Passes(clip, Preview, read) =>
        /\ DOMAIN b \subseteq Measures \cup (IF read.says = clip.says THEN {} ELSE {"says"})
        /\ clip.width = 960 /\ clip.height = 544
        /\ 4 * Distance(clip.duration, 5 * Ticks) <= Ticks
  <2> SUFFICES ASSUME Passes(clip, Preview, read)
               PROVE  /\ DOMAIN b \subseteq Measures \cup
                           (IF read.says = clip.says THEN {} ELSE {"says"})
                      /\ clip.width = 960 /\ clip.height = 544
                      /\ 4 * Distance(clip.duration, 5 * Ticks) <= Ticks
    OBVIOUS
  <2>1. DOMAIN b \subseteq Measures \cup (IF read.says = clip.says THEN {} ELSE {"says"})
    BY <1>1, PassedIsClean
  <2> HIDE DEF clip
  <2>2. clip.width = 960 /\ clip.height = 544
    BY DEF Passes, Preview
  <2>3. Distance(clip.duration, 12000) <= 600
    BY DEF Passes, Lasts, Preview, Ticks
  <2>4. 4 * Distance(clip.duration, 12000) <= 2400
    BY <1>3, <2>3 DEF Distance
  <2> QED
    BY <2>1, <2>2, <2>4 DEF Ticks
<1>10. b = <<>> /\ read = ReadWhole(clip) => (Passes(clip, Preview, read) <=> preview)
  BY <1>1, RenderedPasses
<1>11. /\ result.clip = clip /\ result.written = written /\ result.read = read
       /\ result.evaluation = found
  OBVIOUS
<1> HIDE DEF clip, found, preview, asked, result
<1>12. /\ Reviewed' <=> found.status = "passed"
       /\ Heard' <=> read.says = clip.says
       /\ Undisturbed' <=> written /\ read = ReadWhole(clip)
  BY <1>5, <1>11 DEF Reviewed, Heard, Undisturbed, ReadWhole
<1>13. Reviewed' =>
         /\ DOMAIN clip.blemish \subseteq Measures \cup (IF Heard' THEN {} ELSE {"says"})
         /\ clip.width = 960 /\ clip.height = 544
         /\ 4 * Distance(clip.duration, 5 * Ticks) <= Ticks
  BY <1>2, <1>8, <1>9, <1>12
<1>14. clip.blemish = <<>> /\ Undisturbed' => (Reviewed' <=> preview)
  BY <1>2, <1>6, <1>10, <1>12
<1>15. ~ Reviewed' => found.code = EvaluationFailureCode(found.checks)
  BY <1>4, <1>12 DEF EvaluationFailureCode
<1>16. OnlyPreviewsAreReviewed'
  BY <1>5, <1>11, <1>13, <1>14, <1>15 DEF OnlyPreviewsAreReviewed, EvaluationFailureCode,
     FirstFailureCode, Failed, preview, asked
<1> QED
  BY <1>5, <1>16 DEF asked

LEMMA FinishAttemptKeeps ==
  ASSUME IInv, Finish
  PROVE  IInv'
<1>1. /\ attempt # None /\ attempt.state = "submitted" /\ DOMAIN attempt = Fields
      /\ attempt.prompt # None
  BY DEF Finish, At, IInv, AttemptIsSound, Fields
<1>2. pending["worker"] = None
  BY <1>1 DEF IInv, PendingIsSound, Validator, At
<1>3. AttemptMakes
  BY <1>1, SubmittedMakes DEF IInv
<1>4. ASSUME NEW b \in Blemishes, NEW written \in BOOLEAN, NEW read, RunsEnd(read),
             FinishSuccess(Clip(Rendered(attempt.prompt.nodes), b), written, read)
      PROVE  IInv'
  <2>1. /\ OnlyPreviewsAreReviewed'
        /\ DOMAIN attempt' = Fields /\ attempt'.state \in {"awaiting_review", "failed"}
        /\ attempt'.parameters = attempt.parameters /\ attempt'.prompt = attempt.prompt
    BY <1>1, <1>3, <1>4, FinishedIsReviewed
  <2>2. UNCHANGED <<api, revision, pending>>
    BY <1>4 DEF FinishSuccess, Advance
  <2>3. AttemptIsSound'
    BY <1>1, <2>1, <2>2 DEF IInv, AttemptIsSound, Found, Fields
  <2> QED
    BY <1>2, <2>1, <2>2, <2>3, AttemptMoves
<1>5. ASSUME NEW b \in Blemishes, NEW read \in ToolRuns(Clip(Rendered(attempt.prompt.nodes), b)),
             FinishSuccess(Clip(Rendered(attempt.prompt.nodes), b), TRUE, read)
      PROVE  IInv'
  <2>1. RunsEnd(read)
    BY ToolRunsEnd
  <2> DEFINE written == TRUE
  <2>2. /\ written \in BOOLEAN
        /\ FinishSuccess(Clip(Rendered(attempt.prompt.nodes), b), written, read)
    BY <1>5
  <2> HIDE DEF written
  <2> QED
    BY <1>4, <2>1, <2>2
<1>6. ASSUME NEW b \in Blemishes,
             FinishSuccess(Clip(Rendered(attempt.prompt.nodes), b), FALSE,
                           ReadWhole(Clip(Rendered(attempt.prompt.nodes), b)))
      PROVE  IInv'
  <2> DEFINE read == ReadWhole(Clip(Rendered(attempt.prompt.nodes), b))
             written == FALSE
  <2>1. RunsEnd(read)
    BY ToolRunsEnd
  <2>2. /\ written \in BOOLEAN
        /\ FinishSuccess(Clip(Rendered(attempt.prompt.nodes), b), written, read)
    BY <1>6
  <2> HIDE DEF read, written
  <2> QED
    BY <1>4, <2>1, <2>2
<1>7. \E b \in Blemishes :
        \/ \E read \in ToolRuns(Clip(Rendered(attempt.prompt.nodes), b)) :
             FinishSuccess(Clip(Rendered(attempt.prompt.nodes), b), TRUE, read)
        \/ FinishSuccess(Clip(Rendered(attempt.prompt.nodes), b), FALSE,
                         ReadWhole(Clip(Rendered(attempt.prompt.nodes), b)))
  BY DEF Finish, Clip
<1> QED
  BY <1>5, <1>6, <1>7

LEMMA CanvasStep == IInv /\ [Next]_vars => IInv'
<1> SUFFICES ASSUME IInv, [Next]_vars PROVE IInv'
  OBVIOUS
<1>1. CASE UNCHANGED vars
  <2>1. api' = api /\ UNCHANGED <<revision, pending, attempt>>
    BY <1>1 DEF vars
  <2> QED
    BY <2>1, Unmoved DEF IInv
<1>2. CASE \/ \E e \in CanvasEdits : EditCanvas(e)
           \/ \E id \in Droppable : DropCanvasNode(id) \/ DropApiNode(id)
           \/ \E id \in DOMAIN ExtraNode : AddCanvasNode(Plain(id, ExtraNode[id].class))
           \/ \E n \in Range(PinnedEditor.nodes), part \in {"node", "named", "widgets"} :
                BreakNode(n.id, part)
           \/ \E shape \in {"not an object", "too big"} : BreakCanvas(shape)
           \/ Export
           \/ \E e \in ApiEdits : SetInput(e)
           \/ \E id \in DOMAIN ExtraNode : PutApiNode(id, ExtraNode[id])
           \/ \E answer \in Executors : ExecutorChanges(answer)
  BY <1>2, EditsKeep
<1>3. CASE CreateRevision
  BY <1>3, CreateKeeps
<1>4. CASE QueueAttempt
  BY <1>4, QueueKeeps
<1>5. CASE Claim \/ ReadRevision \/ RecordIntent \/ LookUp \/ Refuse
  BY <1>5, WorkerKeeps
<1>6. CASE \E v \in Validator : StartValidation(v) \/ FinishValidation(v)
  BY <1>6, StartKeeps, FinishKeeps
<1>7. CASE Finish
  BY <1>7, FinishAttemptKeeps
<1>8. ASSUME NEW input \in TemplateInputs, NEW manifest \in Manifests,
             CompileTemplate(input, manifest)
      PROVE  IInv'
  <2>1. api' = api /\ UNCHANGED <<revision, pending, attempt>>
    BY <1>8 DEF CompileTemplate
  <2> QED
    BY <2>1, Unmoved DEF IInv
<1>9. CASE WorkerDies
  BY <1>9, DeathKeeps
<1> QED
  BY <1>1, <1>2, <1>3, <1>4, <1>5, <1>6, <1>7, <1>8, <1>9 DEF Next

-----------------------------------------------------------------------------
(* What holds of every canvas *)

(* The inductive invariant: graphs are graphs, a verdict on its way to the  *)
(* revision's row is of the stored graphs and of the answer its validation  *)
(* got, and an attempt carries the revision's parameters.                   *)
THEOREM CanvasInvariant == Spec => []IInv
<1> QED
  BY CanvasInit, CanvasStep, PTL DEF Spec

LEMMA LocalRunsAsShown == ASSUME IInv PROVE RunsAsShown
<1> SUFFICES ASSUME Local.valid
             PROVE  LET g == Nodes(api)
                        canvas == Canvas
                        frames == ApiValues(api).frames
                    IN /\ Cardinality(Outputs(g)) = 1
                       /\ \A f \in ComparedFields : Makes(g, f, canvas[f])
                       /\ Makes(g, "frames", frames)
                       /\ FiniteDuration(canvas.duration) =>
                            Covers(frames.num, Hundredths(canvas.duration))
  BY DEF RunsAsShown
<1>1. GraphIsSound(api) /\ Validation(editor, api, TRUE, NotAsked, FALSE).valid
  BY DEF IInv, Local
<1>2. ApiReads(api)
  BY <1>1, ValidIsRead
<1>3. /\ Clean(api)
      /\ \A f \in ComparedFields : ApiValues(api)[f] = Canvas[f]
      /\ \A f \in MadeFields : MadeBy(Nodes(api), f) = {ApiValues(api)[f]}
      /\ FiniteDuration(Canvas.duration) =>
           Covers(ApiValues(api).frames.num, Hundredths(Canvas.duration))
  BY <1>1, <1>2, ValidRunsAsShown DEF Canvas
<1>4. Cardinality(Outputs(Nodes(api))) = 1
  <2>1. \E o : Outputs(Nodes(api)) = {o}
    <3>1. "SaveVideo" \in OnePerClass
      BY DEF OnePerClass, RequiredClasses
    <3>2. \E o \in DOMAIN Nodes(api) : OfClass(Nodes(api), "SaveVideo") = {o}
      BY <1>3, <3>1, OneFound
    <3> QED
      BY <3>2 DEF Outputs
  <2> QED
    BY <2>1, FS_Singleton
<1>5. \A f \in MadeFields : Makes(Nodes(api), f, ApiValues(api)[f])
  BY <1>3 DEF Makes
<1>6. ComparedFields \subseteq MadeFields /\ "frames" \in MadeFields
  BY DEF MadeFields
<1>7. /\ \A f \in ComparedFields : Makes(Nodes(api), f, Canvas[f])
      /\ Makes(Nodes(api), "frames", ApiValues(api)["frames"])
  BY <1>3, <1>5, <1>6
<1> QED
  BY <1>3, <1>4, <1>7

(* Whatever is sent as canvas and graph: if the profile finds them valid,   *)
(* an executor that follows the graph from its only output makes what the   *)
(* canvas shows, in the fewest frames that cover the duration.              *)
THEOREM ValidGraphsRunAsShown == Spec => []RunsAsShown
<1> QED
  BY CanvasInvariant, LocalRunsAsShown, PTL

(* A revision that is valid was seen with every class and model it needs,   *)
(* by the answer its fingerprint is of, whichever validation wrote last.    *)
THEOREM VerdictAndFingerprintAgree == Spec => []VerdictFitsFingerprint
<1>1. IInv => VerdictFitsFingerprint
  BY DEF IInv
<1> QED
  BY <1>1, CanvasInvariant, PTL

LEMMA SubmittedIsRecorded == ASSUME IInv PROVE SubmittedAsRecorded
<1> SUFFICES ASSUME attempt # None, attempt.prompt # None
             PROVE  /\ Makes(attempt.prompt.nodes, "outputPrefix", AttemptPrefix)
                    /\ \A f \in (ComparedFields \cup {"frames"}) \ {"outputPrefix"} :
                         Makes(attempt.prompt.nodes, f, attempt.parameters[f])
                    /\ Covers(attempt.parameters.frames.num,
                              Hundredths(attempt.parameters.duration))
                    /\ \A f \in ModelFields : Lists(attempt.prompt.asked, f)
  BY DEF SubmittedAsRecorded
<1>1. AttemptMakes
  BY SubmittedMakes DEF IInv
<1>2. \A f \in ModelFields : Lists(attempt.prompt.asked, f)
  <2>1. Validation(revision.editor, revision.api, TRUE, attempt.prompt.asked, TRUE).valid
    BY DEF IInv, AttemptIsSound, Found
  <2> QED
    BY <2>1, ValidFitsExecutor
<1> QED
  BY <1>1, <1>2 DEF AttemptMakes, Makes, MadeFields

(* The prompt a worker has submitted makes what its attempt records, under  *)
(* the attempt's own prefix, from models the executor listed, whichever     *)
(* worker has the attempt since and whatever became of its revision.        *)
THEOREM SubmittedPromptsMakeWhatIsRecorded == Spec => []SubmittedAsRecorded
<1> QED
  BY CanvasInvariant, SubmittedIsRecorded, PTL

(* A clip is reviewed without a blemish but one of its size, its length or  *)
(* its lost report, and as the preview.  A clip that is as asked for, whose *)
(* runs of ffprobe and ffmpeg all ended well and were read whole, is        *)
(* reviewed exactly when the preview was asked for.  Both are of results    *)
(* that were committed: the rows of an attempt whose revision is not valid  *)
(* stay as they were.                                                       *)
THEOREM PreviewsAloneAreReviewed == Spec => []OnlyPreviewsAreReviewed
<1>1. IInv => OnlyPreviewsAreReviewed
  BY DEF IInv
<1> QED
  BY <1>1, CanvasInvariant, PTL

-----------------------------------------------------------------------------
(* The least of some numbers.                                              *)

LEMMA LeastNumber ==
  ASSUME NEW T, T \subseteq Nat, T # {}
  PROVE  \E x \in T : \A y \in T : x <= y
<1> DEFINE below == {0 .. n : n \in T}
<1>1. below \subseteq FiniteSubsetsOf(Nat) /\ below # {}
  <2>1. ASSUME NEW n \in T PROVE 0 .. n \in FiniteSubsetsOf(Nat)
    <3>1. IsFiniteSet(0 .. n) /\ 0 .. n \subseteq Nat
      BY FS_Interval
    <3> QED
      BY <3>1 DEF FiniteSubsetsOf
  <2> QED
    BY <2>1
<1>2. PICK w \in below : \A v \in below : ~ (<<v, w>> \in StrictSubsetOrdering(Nat))
  <2>1. IsWellFoundedOn(StrictSubsetOrdering(Nat), FiniteSubsetsOf(Nat))
    BY FS_StrictSubsetOrderingWellFounded
  <2> HIDE DEF below
  <2> QED
    BY <1>1, <2>1, WFMin
<1>3. PICK x \in T : w = 0 .. x
  BY <1>2
<1>4. ASSUME NEW y \in T, ~ (x <= y) PROVE FALSE
  <2>1. x \in Nat /\ y \in Nat /\ y < x
    BY <1>4
  <2>2. 0 .. y \subseteq 0 .. x /\ x \in 0 .. x /\ x \notin 0 .. y
    BY <2>1
  <2>3. <<0 .. y, 0 .. x>> \in StrictSubsetOrdering(Nat)
    <3>1. 0 .. y \in SUBSET Nat /\ 0 .. x \in SUBSET Nat
      BY <2>1
    <3> QED
      BY <2>2, <3>1 DEF StrictSubsetOrdering
  <2> QED
    BY <1>2, <1>3, <2>3
<1> QED
  BY <1>3, <1>4

LEMMA LeastIsOne ==
  ASSUME NEW T, T \subseteq Nat, T # {}
  PROVE  Min(T) \in T
<1>1. \E x \in T : \A y \in T : x <= y
  BY LeastNumber
<1> QED
  BY <1>1 DEF Min

LEMMA LeastOfOne ==
  ASSUME NEW x \in Int
  PROVE  Min({x}) = x /\ Max({x}) = x
BY DEF Min, Max

-----------------------------------------------------------------------------
(* A graph with the nodes and the wires of the shipped template, whatever  *)
(* its literals.                                                           *)

VideoVaeNode == 119
AudioVaeNode == 120

IsLiteral(v) == Defined(v) /\ ~ IsConnection(v) /\ ~ Is("list", v)

Shaped(g) ==
  /\ g = [i \in DOMAIN FIXTURE_WORKFLOW |-> g[i]]
  /\ \A i \in DOMAIN FIXTURE_WORKFLOW :
       /\ g[i].class = FIXTURE_WORKFLOW[i].class
       /\ DOMAIN g[i].inputs = DOMAIN FIXTURE_WORKFLOW[i].inputs
       /\ \A f \in DOMAIN g[i].inputs :
            IF IsConnection(FIXTURE_WORKFLOW[i].inputs[f])
            THEN g[i].inputs[f] = FIXTURE_WORKFLOW[i].inputs[f]
            ELSE IsLiteral(g[i].inputs[f])
  /\ g[VideoVaeNode].inputs.vae_name = Txt(ModelFile["videoVae"])
  /\ g[AudioVaeNode].inputs.vae_name = Txt(ModelFile["audioVae"])

(* Kinds of values *)
LEMMA LinksAndOthers ==
  /\ \A id, out : IsConnection(Link(id, out)) /\ Link(id, out).link = <<id, out>>
  /\ \A n : ~ IsConnection(Num(n)) /\ ~ Is("list", Num(n)) /\ Defined(Num(n)) /\ Literal(Num(n)) = Num(n)
  /\ \A t : ~ IsConnection(Txt(t)) /\ ~ Is("list", Txt(t)) /\ Defined(Txt(t)) /\ Literal(Txt(t)) = Txt(t)
  /\ \A id, out : ~ Is("list", Link(id, out)) /\ Defined(Link(id, out))
  /\ Is("list", BadList)
  /\ (\A n : IsLiteral(Num(n))) /\ (\A t : IsLiteral(Txt(t)))
BY DEF IsLiteral, IsConnection, Is, Link, Num, Txt, Defined, Undefined, Literal, BadList

(* The nodes of the template: their classes, the names of their inputs,    *)
(* the links, and which inputs are none.                                   *)
LEMMA TemplateNodes ==
  /\ FIXTURE_WORKFLOW[92].class = "SaveVideo"
  /\ DOMAIN FIXTURE_WORKFLOW[92].inputs = {"video", "filename_prefix"}
  /\ FIXTURE_WORKFLOW[92].inputs.video = Link(130, 0)
  /\ IsLiteral(FIXTURE_WORKFLOW[92].inputs.filename_prefix)
  /\ FIXTURE_WORKFLOW[119].class = "VAELoader"
  /\ DOMAIN FIXTURE_WORKFLOW[119].inputs = {"vae_name"}
  /\ IsLiteral(FIXTURE_WORKFLOW[119].inputs.vae_name)
  /\ FIXTURE_WORKFLOW[120].class = "VAELoader"
  /\ DOMAIN FIXTURE_WORKFLOW[120].inputs = {"vae_name"}
  /\ IsLiteral(FIXTURE_WORKFLOW[120].inputs.vae_name)
  /\ FIXTURE_WORKFLOW[121].class = "VAEDecodeAudio"
  /\ DOMAIN FIXTURE_WORKFLOW[121].inputs = {"samples", "vae"}
  /\ FIXTURE_WORKFLOW[121].inputs.samples = Link(125, 0)
  /\ FIXTURE_WORKFLOW[121].inputs.vae = Link(120, 0)
  /\ FIXTURE_WORKFLOW[122].class = "VAEDecode"
  /\ DOMAIN FIXTURE_WORKFLOW[122].inputs = {"samples", "vae"}
  /\ FIXTURE_WORKFLOW[122].inputs.samples = Link(125, 0)
  /\ FIXTURE_WORKFLOW[122].inputs.vae = Link(119, 0)
  /\ FIXTURE_WORKFLOW[123].class = "KSamplerSelect"
  /\ DOMAIN FIXTURE_WORKFLOW[123].inputs = {"sampler_name"}
  /\ IsLiteral(FIXTURE_WORKFLOW[123].inputs.sampler_name)
  /\ FIXTURE_WORKFLOW[124].class = "BasicScheduler"
  /\ DOMAIN FIXTURE_WORKFLOW[124].inputs = {"model", "steps"}
  /\ FIXTURE_WORKFLOW[124].inputs.model = Link(127, 0)
  /\ IsLiteral(FIXTURE_WORKFLOW[124].inputs.steps)
  /\ FIXTURE_WORKFLOW[125].class = "SamplerCustomAdvanced"
  /\ DOMAIN FIXTURE_WORKFLOW[125].inputs = {"noise", "guider", "sampler", "sigmas", "latent_image"}
  /\ FIXTURE_WORKFLOW[125].inputs.noise = Link(129, 0)
  /\ FIXTURE_WORKFLOW[125].inputs.guider = Link(126, 0)
  /\ FIXTURE_WORKFLOW[125].inputs.sampler = Link(123, 0)
  /\ FIXTURE_WORKFLOW[125].inputs.sigmas = Link(124, 0)
  /\ FIXTURE_WORKFLOW[125].inputs.latent_image = Link(131, 1)
  /\ FIXTURE_WORKFLOW[126].class = "BasicGuider"
  /\ DOMAIN FIXTURE_WORKFLOW[126].inputs = {"model", "conditioning"}
  /\ FIXTURE_WORKFLOW[126].inputs.model = Link(127, 0)
  /\ FIXTURE_WORKFLOW[126].inputs.conditioning = Link(131, 0)
  /\ FIXTURE_WORKFLOW[127].class = "UNETLoader"
  /\ DOMAIN FIXTURE_WORKFLOW[127].inputs = {"unet_name"}
  /\ IsLiteral(FIXTURE_WORKFLOW[127].inputs.unet_name)
  /\ FIXTURE_WORKFLOW[128].class = "CLIPLoader"
  /\ DOMAIN FIXTURE_WORKFLOW[128].inputs = {"clip_name"}
  /\ IsLiteral(FIXTURE_WORKFLOW[128].inputs.clip_name)
  /\ FIXTURE_WORKFLOW[129].class = "RandomNoise"
  /\ DOMAIN FIXTURE_WORKFLOW[129].inputs = {"noise_seed"}
  /\ IsLiteral(FIXTURE_WORKFLOW[129].inputs.noise_seed)
  /\ FIXTURE_WORKFLOW[130].class = "CreateVideo"
  /\ DOMAIN FIXTURE_WORKFLOW[130].inputs = {"images", "audio", "fps"}
  /\ FIXTURE_WORKFLOW[130].inputs.images = Link(122, 0)
  /\ FIXTURE_WORKFLOW[130].inputs.audio = Link(121, 0)
  /\ IsLiteral(FIXTURE_WORKFLOW[130].inputs.fps)
  /\ FIXTURE_WORKFLOW[131].class = "MiniMaxH3ImageToVideo"
  /\ DOMAIN FIXTURE_WORKFLOW[131].inputs = {"clip", "vae", "prompt", "width", "height", "length"}
  /\ FIXTURE_WORKFLOW[131].inputs.clip = Link(128, 0)
  /\ FIXTURE_WORKFLOW[131].inputs.vae = Link(119, 0)
  /\ IsLiteral(FIXTURE_WORKFLOW[131].inputs.prompt)
  /\ IsLiteral(FIXTURE_WORKFLOW[131].inputs.width)
  /\ IsLiteral(FIXTURE_WORKFLOW[131].inputs.height)
  /\ IsLiteral(FIXTURE_WORKFLOW[131].inputs.length)
<1>1. /\ FIXTURE_WORKFLOW[92].class = "SaveVideo"
      /\ DOMAIN FIXTURE_WORKFLOW[92].inputs = {"video", "filename_prefix"}
      /\ FIXTURE_WORKFLOW[92].inputs.video = Link(130, 0)
      /\ IsLiteral(FIXTURE_WORKFLOW[92].inputs.filename_prefix)
  BY LinksAndOthers DEF FIXTURE_WORKFLOW, Node, IsLiteral
<1>2. /\ FIXTURE_WORKFLOW[119].class = "VAELoader"
      /\ DOMAIN FIXTURE_WORKFLOW[119].inputs = {"vae_name"}
      /\ IsLiteral(FIXTURE_WORKFLOW[119].inputs.vae_name)
  BY LinksAndOthers DEF FIXTURE_WORKFLOW, Node, IsLiteral
<1>3. /\ FIXTURE_WORKFLOW[120].class = "VAELoader"
      /\ DOMAIN FIXTURE_WORKFLOW[120].inputs = {"vae_name"}
      /\ IsLiteral(FIXTURE_WORKFLOW[120].inputs.vae_name)
  BY LinksAndOthers DEF FIXTURE_WORKFLOW, Node, IsLiteral
<1>4. /\ FIXTURE_WORKFLOW[121].class = "VAEDecodeAudio"
      /\ DOMAIN FIXTURE_WORKFLOW[121].inputs = {"samples", "vae"}
      /\ FIXTURE_WORKFLOW[121].inputs.samples = Link(125, 0)
      /\ FIXTURE_WORKFLOW[121].inputs.vae = Link(120, 0)
  BY LinksAndOthers DEF FIXTURE_WORKFLOW, Node, IsLiteral
<1>5. /\ FIXTURE_WORKFLOW[122].class = "VAEDecode"
      /\ DOMAIN FIXTURE_WORKFLOW[122].inputs = {"samples", "vae"}
      /\ FIXTURE_WORKFLOW[122].inputs.samples = Link(125, 0)
      /\ FIXTURE_WORKFLOW[122].inputs.vae = Link(119, 0)
  BY LinksAndOthers DEF FIXTURE_WORKFLOW, Node, IsLiteral
<1>6. /\ FIXTURE_WORKFLOW[123].class = "KSamplerSelect"
      /\ DOMAIN FIXTURE_WORKFLOW[123].inputs = {"sampler_name"}
      /\ IsLiteral(FIXTURE_WORKFLOW[123].inputs.sampler_name)
  BY LinksAndOthers DEF FIXTURE_WORKFLOW, Node, IsLiteral
<1>7. /\ FIXTURE_WORKFLOW[124].class = "BasicScheduler"
      /\ DOMAIN FIXTURE_WORKFLOW[124].inputs = {"model", "steps"}
      /\ FIXTURE_WORKFLOW[124].inputs.model = Link(127, 0)
      /\ IsLiteral(FIXTURE_WORKFLOW[124].inputs.steps)
  BY LinksAndOthers DEF FIXTURE_WORKFLOW, Node, IsLiteral
<1>8. /\ FIXTURE_WORKFLOW[125].class = "SamplerCustomAdvanced"
      /\ DOMAIN FIXTURE_WORKFLOW[125].inputs = {"noise", "guider", "sampler", "sigmas", "latent_image"}
      /\ FIXTURE_WORKFLOW[125].inputs.noise = Link(129, 0)
      /\ FIXTURE_WORKFLOW[125].inputs.guider = Link(126, 0)
      /\ FIXTURE_WORKFLOW[125].inputs.sampler = Link(123, 0)
      /\ FIXTURE_WORKFLOW[125].inputs.sigmas = Link(124, 0)
      /\ FIXTURE_WORKFLOW[125].inputs.latent_image = Link(131, 1)
  BY LinksAndOthers DEF FIXTURE_WORKFLOW, Node, IsLiteral
<1>9. /\ FIXTURE_WORKFLOW[126].class = "BasicGuider"
      /\ DOMAIN FIXTURE_WORKFLOW[126].inputs = {"model", "conditioning"}
      /\ FIXTURE_WORKFLOW[126].inputs.model = Link(127, 0)
      /\ FIXTURE_WORKFLOW[126].inputs.conditioning = Link(131, 0)
  BY LinksAndOthers DEF FIXTURE_WORKFLOW, Node, IsLiteral
<1>10. /\ FIXTURE_WORKFLOW[127].class = "UNETLoader"
       /\ DOMAIN FIXTURE_WORKFLOW[127].inputs = {"unet_name"}
       /\ IsLiteral(FIXTURE_WORKFLOW[127].inputs.unet_name)
  BY LinksAndOthers DEF FIXTURE_WORKFLOW, Node, IsLiteral
<1>11. /\ FIXTURE_WORKFLOW[128].class = "CLIPLoader"
       /\ DOMAIN FIXTURE_WORKFLOW[128].inputs = {"clip_name"}
       /\ IsLiteral(FIXTURE_WORKFLOW[128].inputs.clip_name)
  BY LinksAndOthers DEF FIXTURE_WORKFLOW, Node, IsLiteral
<1>12. /\ FIXTURE_WORKFLOW[129].class = "RandomNoise"
       /\ DOMAIN FIXTURE_WORKFLOW[129].inputs = {"noise_seed"}
       /\ IsLiteral(FIXTURE_WORKFLOW[129].inputs.noise_seed)
  BY LinksAndOthers DEF FIXTURE_WORKFLOW, Node, IsLiteral
<1>13. /\ FIXTURE_WORKFLOW[130].class = "CreateVideo"
       /\ DOMAIN FIXTURE_WORKFLOW[130].inputs = {"images", "audio", "fps"}
       /\ FIXTURE_WORKFLOW[130].inputs.images = Link(122, 0)
       /\ FIXTURE_WORKFLOW[130].inputs.audio = Link(121, 0)
       /\ IsLiteral(FIXTURE_WORKFLOW[130].inputs.fps)
  BY LinksAndOthers DEF FIXTURE_WORKFLOW, Node, IsLiteral
<1>14. /\ FIXTURE_WORKFLOW[131].class = "MiniMaxH3ImageToVideo"
       /\ DOMAIN FIXTURE_WORKFLOW[131].inputs = {"clip", "vae", "prompt", "width", "height", "length"}
       /\ FIXTURE_WORKFLOW[131].inputs.clip = Link(128, 0)
       /\ FIXTURE_WORKFLOW[131].inputs.vae = Link(119, 0)
       /\ IsLiteral(FIXTURE_WORKFLOW[131].inputs.prompt)
       /\ IsLiteral(FIXTURE_WORKFLOW[131].inputs.width)
       /\ IsLiteral(FIXTURE_WORKFLOW[131].inputs.height)
       /\ IsLiteral(FIXTURE_WORKFLOW[131].inputs.length)
  <2> DEFINE inputs == [clip |-> Link(128, 0), vae |-> Link(119, 0), prompt |-> Txt("a product"),
                        width |-> Num(960), height |-> Num(544), length |-> Num(124)]
  <2>1. FIXTURE_WORKFLOW[131] = Node("MiniMaxH3ImageToVideo", inputs)
    BY DEF FIXTURE_WORKFLOW
  <2>2. /\ DOMAIN inputs = {"clip", "vae", "prompt", "width", "height", "length"}
        /\ inputs.clip = Link(128, 0) /\ inputs.vae = Link(119, 0)
    OBVIOUS
  <2>3. inputs.prompt = Txt("a product")
    OBVIOUS
  <2>4. inputs.width = Num(960)
    OBVIOUS
  <2>5. inputs.height = Num(544)
    OBVIOUS
  <2>6. inputs.length = Num(124)
    OBVIOUS
  <2> HIDE DEF inputs
  <2>7. \A n : IsLiteral(Num(n))
    BY LinksAndOthers
  <2>8. IsLiteral(inputs.prompt)
    BY <2>3, LinksAndOthers
  <2>9. IsLiteral(inputs.width)
    BY <2>4, <2>7
  <2>10. IsLiteral(inputs.height)
    BY <2>5, <2>7
  <2>11. IsLiteral(inputs.length)
    BY <2>6, <2>7
  <2> QED
    BY <2>1, <2>2, <2>8, <2>9, <2>10, <2>11 DEF Node
<1> QED
  BY <1>1, <1>2, <1>3, <1>4, <1>5, <1>6, <1>7, <1>8, <1>9, <1>10, <1>11, <1>12, <1>13, <1>14

LEMMA TemplateIds ==
  DOMAIN FIXTURE_WORKFLOW =
    {92, 119, 120, 121, 122, 123, 124, 125, 126, 127, 128, 129, 130, 131}
<1>1. DOMAIN FIXTURE_WORKFLOW = {92} \cup 119 .. 131
  BY TemplateIsSound
<1> QED
  BY <1>1

LEMMA ShapedInput ==
  ASSUME NEW g, Shaped(g), NEW i \in DOMAIN FIXTURE_WORKFLOW,
         NEW name \in DOMAIN FIXTURE_WORKFLOW[i].inputs
  PROVE  name \in DOMAIN g[i].inputs /\ InputOf(g, {i}, name) = g[i].inputs[name]
BY InputOfOne DEF Shaped

LEMMA ShapedLink ==
  ASSUME NEW g, Shaped(g), NEW i \in DOMAIN FIXTURE_WORKFLOW,
         NEW name \in DOMAIN FIXTURE_WORKFLOW[i].inputs,
         IsConnection(FIXTURE_WORKFLOW[i].inputs[name])
  PROVE  /\ g[i].inputs[name] = FIXTURE_WORKFLOW[i].inputs[name]
         /\ InputOf(g, {i}, name) = FIXTURE_WORKFLOW[i].inputs[name]
BY ShapedInput DEF Shaped

LEMMA ShapedLiteral ==
  ASSUME NEW g, Shaped(g), NEW i \in DOMAIN FIXTURE_WORKFLOW,
         NEW name \in DOMAIN FIXTURE_WORKFLOW[i].inputs,
         ~ IsConnection(FIXTURE_WORKFLOW[i].inputs[name])
  PROVE  /\ IsLiteral(g[i].inputs[name])
         /\ InputOf(g, {i}, name) = g[i].inputs[name]
BY ShapedInput DEF Shaped, IsLiteral

LEMMA ShapedClasses ==
  ASSUME NEW g, Shaped(g)
  PROVE  /\ g[92].class = "SaveVideo" /\ g[119].class = "VAELoader"
         /\ g[120].class = "VAELoader" /\ g[121].class = "VAEDecodeAudio"
         /\ g[122].class = "VAEDecode" /\ g[123].class = "KSamplerSelect"
         /\ g[124].class = "BasicScheduler" /\ g[125].class = "SamplerCustomAdvanced"
         /\ g[126].class = "BasicGuider" /\ g[127].class = "UNETLoader"
         /\ g[128].class = "CLIPLoader" /\ g[129].class = "RandomNoise"
         /\ g[130].class = "CreateVideo" /\ g[131].class = "MiniMaxH3ImageToVideo"
<1>1. /\ g[92].class = FIXTURE_WORKFLOW[92].class /\ g[119].class = FIXTURE_WORKFLOW[119].class
      /\ g[120].class = FIXTURE_WORKFLOW[120].class /\ g[121].class = FIXTURE_WORKFLOW[121].class
      /\ g[122].class = FIXTURE_WORKFLOW[122].class /\ g[123].class = FIXTURE_WORKFLOW[123].class
      /\ g[124].class = FIXTURE_WORKFLOW[124].class /\ g[125].class = FIXTURE_WORKFLOW[125].class
      /\ g[126].class = FIXTURE_WORKFLOW[126].class /\ g[127].class = FIXTURE_WORKFLOW[127].class
      /\ g[128].class = FIXTURE_WORKFLOW[128].class /\ g[129].class = FIXTURE_WORKFLOW[129].class
      /\ g[130].class = FIXTURE_WORKFLOW[130].class /\ g[131].class = FIXTURE_WORKFLOW[131].class
  BY TemplateIds DEF Shaped
<1> QED
  BY <1>1, TemplateNodes

(* The one node of each class. *)
LEMMA ShapedOnes ==
  ASSUME NEW g, Shaped(g)
  PROVE  /\ OfClass(g, "SaveVideo") = {92} /\ OfClass(g, "VAEDecodeAudio") = {121}
         /\ OfClass(g, "VAEDecode") = {122} /\ OfClass(g, "KSamplerSelect") = {123}
         /\ OfClass(g, "BasicScheduler") = {124} /\ OfClass(g, "SamplerCustomAdvanced") = {125}
         /\ OfClass(g, "BasicGuider") = {126} /\ OfClass(g, "UNETLoader") = {127}
         /\ OfClass(g, "CLIPLoader") = {128} /\ OfClass(g, "RandomNoise") = {129}
         /\ OfClass(g, "CreateVideo") = {130} /\ OfClass(g, "MiniMaxH3ImageToVideo") = {131}
         /\ OfClass(g, "VAELoader") = {119, 120} /\ OfClass(g, "LoraLoaderModelOnly") = {}
<1>1. DOMAIN g = {92, 119, 120, 121, 122, 123, 124, 125, 126, 127, 128, 129, 130, 131}
  BY TemplateIds DEF Shaped
<1>2. ASSUME NEW c
      PROVE  OfClass(g, c) = {i \in {92, 119, 120, 121, 122, 123, 124, 125, 126, 127, 128, 129,
                                    130, 131} : g[i].class = c}
  BY <1>1 DEF OfClass
<1>3. OfClass(g, "SaveVideo") = {92} /\ OfClass(g, "VAEDecodeAudio") = {121}
  BY <1>2, ShapedClasses
<1>4. OfClass(g, "VAEDecode") = {122} /\ OfClass(g, "KSamplerSelect") = {123}
  BY <1>2, ShapedClasses
<1>5. OfClass(g, "BasicScheduler") = {124} /\ OfClass(g, "SamplerCustomAdvanced") = {125}
  BY <1>2, ShapedClasses
<1>6. OfClass(g, "BasicGuider") = {126} /\ OfClass(g, "UNETLoader") = {127}
  BY <1>2, ShapedClasses
<1>7. OfClass(g, "CLIPLoader") = {128} /\ OfClass(g, "RandomNoise") = {129}
  BY <1>2, ShapedClasses
<1>8. OfClass(g, "CreateVideo") = {130} /\ OfClass(g, "MiniMaxH3ImageToVideo") = {131}
  BY <1>2, ShapedClasses
<1>9. OfClass(g, "VAELoader") = {119, 120} /\ OfClass(g, "LoraLoaderModelOnly") = {}
  BY <1>2, ShapedClasses
<1> QED
  BY <1>3, <1>4, <1>5, <1>6, <1>7, <1>8, <1>9

LEMMA ShapedOneNode ==
  ASSUME NEW g, Shaped(g)
  PROVE  /\ OneNode(g, "SaveVideo") = {92} /\ OneNode(g, "VAEDecodeAudio") = {121}
         /\ OneNode(g, "VAEDecode") = {122} /\ OneNode(g, "KSamplerSelect") = {123}
         /\ OneNode(g, "BasicScheduler") = {124} /\ OneNode(g, "SamplerCustomAdvanced") = {125}
         /\ OneNode(g, "BasicGuider") = {126} /\ OneNode(g, "UNETLoader") = {127}
         /\ OneNode(g, "CLIPLoader") = {128} /\ OneNode(g, "RandomNoise") = {129}
         /\ OneNode(g, "CreateVideo") = {130} /\ OneNode(g, "MiniMaxH3ImageToVideo") = {131}
<1>1. ASSUME NEW c, NEW x \in Int, OfClass(g, c) = {x} PROVE OneNode(g, c) = {x}
  BY <1>1, LeastOfOne DEF OneNode
<1> QED
  BY <1>1, ShapedOnes

LEMMA ShapedVae ==
  ASSUME NEW g, Shaped(g)
  PROVE  /\ InputOf(g, {119}, "vae_name") = Txt(ModelFile["videoVae"])
         /\ InputOf(g, {120}, "vae_name") = Txt(ModelFile["audioVae"])
         /\ VaeNode(g, "videoVae") = {119} /\ VaeNode(g, "audioVae") = {120}
         /\ VaeValue(g, "videoVae") = Txt(ModelFile["videoVae"])
         /\ VaeValue(g, "audioVae") = Txt(ModelFile["audioVae"])
<1>1. ModelFile["videoVae"] # ModelFile["audioVae"]
  BY DEF ModelFile, ModelFields
<1>2. /\ InputOf(g, {119}, "vae_name") = Txt(ModelFile["videoVae"])
      /\ InputOf(g, {120}, "vae_name") = Txt(ModelFile["audioVae"])
  <2>1. /\ "vae_name" \in DOMAIN FIXTURE_WORKFLOW[119].inputs
        /\ "vae_name" \in DOMAIN FIXTURE_WORKFLOW[120].inputs
    BY TemplateNodes
  <2>2. 119 \in DOMAIN FIXTURE_WORKFLOW /\ 120 \in DOMAIN FIXTURE_WORKFLOW
    BY TemplateIds
  <2>3. /\ InputOf(g, {119}, "vae_name") = g[119].inputs.vae_name
        /\ InputOf(g, {120}, "vae_name") = g[120].inputs.vae_name
    <3>1. ASSUME NEW i \in DOMAIN FIXTURE_WORKFLOW,
                 "vae_name" \in DOMAIN FIXTURE_WORKFLOW[i].inputs
          PROVE  InputOf(g, {i}, "vae_name") = g[i].inputs["vae_name"]
      BY <3>1, ShapedInput
    <3>2. InputOf(g, {119}, "vae_name") = g[119].inputs["vae_name"]
      BY <2>1, <2>2, <3>1, Zenon
    <3>3. InputOf(g, {120}, "vae_name") = g[120].inputs["vae_name"]
      BY <2>1, <2>2, <3>1, Zenon
    <3> QED
      BY <3>2, <3>3
  <2> QED
    BY <2>3 DEF Shaped, VideoVaeNode, AudioVaeNode
<1>3. \A s, t : Txt(s) = Txt(t) => s = t
  BY DEF Txt
<1>4. OfClass(g, "VAELoader") = {119, 120}
  BY ShapedOnes
<1>5. /\ {i \in OfClass(g, "VAELoader") : InputOf(g, {i}, "vae_name") = Txt(ModelFile["videoVae"])} = {119}
      /\ {i \in OfClass(g, "VAELoader") : InputOf(g, {i}, "vae_name") = Txt(ModelFile["audioVae"])} = {120}
  BY <1>1, <1>2, <1>3, <1>4
<1>6. /\ VaeNode(g, "videoVae") = {119} /\ VaeNode(g, "audioVae") = {120}
  <2> DEFINE Loading(f) ==
        {i \in OfClass(g, "VAELoader") : InputOf(g, {i}, "vae_name") = Txt(ModelFile[f])}
  <2>1. ASSUME NEW f, NEW x \in Int, Loading(f) = {x} PROVE VaeNode(g, f) = {x}
    BY <2>1, LeastOfOne DEF VaeNode
  <2>2. Loading("videoVae") = {119} /\ Loading("audioVae") = {120}
    BY <1>5
  <2> HIDE DEF Loading
  <2>3. VaeNode(g, "videoVae") = {119}
    BY <2>1, <2>2
  <2>4. VaeNode(g, "audioVae") = {120}
    BY <2>1, <2>2
  <2> QED
    BY <2>3, <2>4
<1>7. Txt(ModelFile["videoVae"]) \in VaeNames(g) /\ Txt(ModelFile["audioVae"]) \in VaeNames(g)
  <2>1. \A i \in OfClass(g, "VAELoader") : Literal(InputOf(g, {i}, "vae_name")) \in VaeNames(g)
    BY DEF VaeNames
  <2>2. /\ Literal(InputOf(g, {119}, "vae_name")) = Txt(ModelFile["videoVae"])
        /\ Literal(InputOf(g, {120}, "vae_name")) = Txt(ModelFile["audioVae"])
    BY <1>2, LiteralText
  <2>3. 119 \in OfClass(g, "VAELoader") /\ 120 \in OfClass(g, "VAELoader")
    BY <1>4
  <2> QED
    BY <2>1, <2>2, <2>3
<1> QED
  BY <1>2, <1>6, <1>7 DEF VaeValue

(* The literals a shaped graph is read by. *)
LEMMA ShapedLiterals ==
  ASSUME NEW g, Shaped(g), NEW f \in DOMAIN LiteralInputs
  PROVE  \E i \in DOMAIN FIXTURE_WORKFLOW :
           /\ OneNode(g, LiteralInputs[f][1]) = {i}
           /\ LiteralInputs[f][2] \in DOMAIN FIXTURE_WORKFLOW[i].inputs
           /\ ~ IsConnection(FIXTURE_WORKFLOW[i].inputs[LiteralInputs[f][2]])
<1>1. CASE f \in {"prompt", "width", "height", "frames"}
  <2>1. /\ LiteralInputs[f][1] = "MiniMaxH3ImageToVideo"
        /\ LiteralInputs[f][2] \in {"prompt", "width", "height", "length"}
    BY <1>1 DEF LiteralInputs
  <2>2. /\ OneNode(g, "MiniMaxH3ImageToVideo") = {131} /\ 131 \in DOMAIN FIXTURE_WORKFLOW
        /\ \A name \in {"prompt", "width", "height", "length"} :
             /\ name \in DOMAIN FIXTURE_WORKFLOW[131].inputs
             /\ ~ IsConnection(FIXTURE_WORKFLOW[131].inputs[name])
    BY ShapedOneNode, TemplateIds, TemplateNodes DEF IsLiteral
  <2> QED
    BY <2>1, <2>2
<1>2. CASE f = "seed"
  <2>1. LiteralInputs[f][1] = "RandomNoise" /\ LiteralInputs[f][2] = "noise_seed"
    BY <1>2 DEF LiteralInputs
  <2>2. OneNode(g, "RandomNoise") = {129} /\ 129 \in DOMAIN FIXTURE_WORKFLOW
    BY ShapedOneNode, TemplateIds
  <2> QED
    BY <2>1, <2>2, TemplateNodes DEF IsLiteral
<1>3. CASE f = "steps"
  <2>1. LiteralInputs[f][1] = "BasicScheduler" /\ LiteralInputs[f][2] = "steps"
    BY <1>3 DEF LiteralInputs
  <2>2. OneNode(g, "BasicScheduler") = {124} /\ 124 \in DOMAIN FIXTURE_WORKFLOW
    BY ShapedOneNode, TemplateIds
  <2> QED
    BY <2>1, <2>2, TemplateNodes DEF IsLiteral
<1>4. CASE f = "fps"
  <2>1. LiteralInputs[f][1] = "CreateVideo" /\ LiteralInputs[f][2] = "fps"
    BY <1>4 DEF LiteralInputs
  <2>2. OneNode(g, "CreateVideo") = {130} /\ 130 \in DOMAIN FIXTURE_WORKFLOW
    BY ShapedOneNode, TemplateIds
  <2> QED
    BY <2>1, <2>2, TemplateNodes DEF IsLiteral
<1>5. CASE f = "diffusionModel"
  <2>1. LiteralInputs[f][1] = "UNETLoader" /\ LiteralInputs[f][2] = "unet_name"
    BY <1>5 DEF LiteralInputs
  <2>2. OneNode(g, "UNETLoader") = {127} /\ 127 \in DOMAIN FIXTURE_WORKFLOW
    BY ShapedOneNode, TemplateIds
  <2> QED
    BY <2>1, <2>2, TemplateNodes DEF IsLiteral
<1>6. CASE f = "textEncoder"
  <2>1. LiteralInputs[f][1] = "CLIPLoader" /\ LiteralInputs[f][2] = "clip_name"
    BY <1>6 DEF LiteralInputs
  <2>2. OneNode(g, "CLIPLoader") = {128} /\ 128 \in DOMAIN FIXTURE_WORKFLOW
    BY ShapedOneNode, TemplateIds
  <2> QED
    BY <2>1, <2>2, TemplateNodes DEF IsLiteral
<1>7. CASE f = "outputPrefix"
  <2>1. LiteralInputs[f][1] = "SaveVideo" /\ LiteralInputs[f][2] = "filename_prefix"
    BY <1>7 DEF LiteralInputs
  <2>2. OneNode(g, "SaveVideo") = {92} /\ 92 \in DOMAIN FIXTURE_WORKFLOW
    BY ShapedOneNode, TemplateIds
  <2> QED
    BY <2>1, <2>2, TemplateNodes DEF IsLiteral
<1> QED
  BY <1>1, <1>2, <1>3, <1>4, <1>5, <1>6, <1>7 DEF LiteralInputs

(* A shaped graph has every wire the profile requires. *)
LEMMA ShapedWired ==
  ASSUME NEW g, Shaped(g) PROVE WiringIssues(g) = {}
<1>1. ASSUME NEW i \in DOMAIN FIXTURE_WORKFLOW, NEW name \in DOMAIN FIXTURE_WORKFLOW[i].inputs,
             NEW x, NEW slot, FIXTURE_WORKFLOW[i].inputs[name] = Link(x, slot)
      PROVE  Connected(g, <<{i}, name, {x}, slot>>)
  <2>1. InputOf(g, {i}, name) = Link(x, slot)
    <3>1. IsConnection(FIXTURE_WORKFLOW[i].inputs[name])
      BY <1>1 DEF IsConnection, Is, Link
    <3> QED
      BY <1>1, <3>1, ShapedLink
  <2> QED
    BY <2>1 DEF Connected
<1>2. /\ Connected(g, <<{125}, "noise", {129}, 0>>) /\ Connected(g, <<{125}, "guider", {126}, 0>>)
      /\ Connected(g, <<{125}, "sampler", {123}, 0>>) /\ Connected(g, <<{125}, "sigmas", {124}, 0>>)
      /\ Connected(g, <<{125}, "latent_image", {131}, 1>>)
  BY <1>1, TemplateIds, TemplateNodes
<1>3. /\ Connected(g, <<{126}, "conditioning", {131}, 0>>) /\ Connected(g, <<{126}, "model", {127}, 0>>)
      /\ Connected(g, <<{124}, "model", {127}, 0>>)
  BY <1>1, TemplateIds, TemplateNodes
<1>4. Connected(g, <<{131}, "clip", {128}, 0>>) /\ Connected(g, <<{131}, "vae", {119}, 0>>)
  BY <1>1, TemplateIds, TemplateNodes
<1>5. /\ Connected(g, <<{122}, "samples", {125}, 0>>) /\ Connected(g, <<{121}, "samples", {125}, 0>>)
      /\ Connected(g, <<{122}, "vae", {119}, 0>>) /\ Connected(g, <<{121}, "vae", {120}, 0>>)
  BY <1>1, TemplateIds, TemplateNodes
<1>6. /\ Connected(g, <<{130}, "images", {122}, 0>>) /\ Connected(g, <<{130}, "audio", {121}, 0>>)
      /\ Connected(g, <<{92}, "video", {130}, 0>>)
  BY <1>1, TemplateIds, TemplateNodes
<1> DEFINE One(c) == OneNode(g, c)
           sampler == One("SamplerCustomAdvanced")
           h3 == One("MiniMaxH3ImageToVideo")
           video == VaeNode(g, "videoVae")
<1>13. /\ sampler = {125} /\ h3 = {131} /\ video = {119} /\ VaeNode(g, "audioVae") = {120}
       /\ One("RandomNoise") = {129} /\ One("BasicGuider") = {126}
       /\ One("KSamplerSelect") = {123} /\ One("BasicScheduler") = {124}
       /\ One("UNETLoader") = {127} /\ One("CLIPLoader") = {128}
       /\ One("VAEDecode") = {122} /\ One("VAEDecodeAudio") = {121}
       /\ One("CreateVideo") = {130} /\ One("SaveVideo") = {92}
  BY ShapedOneNode, ShapedVae
<1> HIDE DEF sampler, h3, video, One
<1>7. /\ Connected(g, <<sampler, "noise", One("RandomNoise"), 0>>)
      /\ Connected(g, <<sampler, "guider", One("BasicGuider"), 0>>)
      /\ Connected(g, <<sampler, "sampler", One("KSamplerSelect"), 0>>)
      /\ Connected(g, <<sampler, "sigmas", One("BasicScheduler"), 0>>)
      /\ Connected(g, <<sampler, "latent_image", h3, 1>>)
  BY <1>2, <1>13
<1>8. /\ Connected(g, <<One("BasicGuider"), "conditioning", h3, 0>>)
      /\ Connected(g, <<One("BasicGuider"), "model", One("UNETLoader"), 0>>)
      /\ Connected(g, <<One("BasicScheduler"), "model", One("UNETLoader"), 0>>)
      /\ Connected(g, <<h3, "clip", One("CLIPLoader"), 0>>)
      /\ Connected(g, <<h3, "vae", video, 0>>)
  BY <1>3, <1>4, <1>13
<1>9. /\ Connected(g, <<One("VAEDecode"), "samples", sampler, 0>>)
      /\ Connected(g, <<One("VAEDecodeAudio"), "samples", sampler, 0>>)
      /\ Connected(g, <<One("VAEDecode"), "vae", video, 0>>)
      /\ Connected(g, <<One("VAEDecodeAudio"), "vae", VaeNode(g, "audioVae"), 0>>)
  BY <1>5, <1>13
<1>10. /\ Connected(g, <<One("CreateVideo"), "images", One("VAEDecode"), 0>>)
       /\ Connected(g, <<One("CreateVideo"), "audio", One("VAEDecodeAudio"), 0>>)
       /\ Connected(g, <<One("SaveVideo"), "video", One("CreateVideo"), 0>>)
  BY <1>6, <1>13
<1>11. \A w \in Wires(g) : Connected(g, w)
  BY <1>7, <1>8, <1>9, <1>10, Zenon DEF Wires, One, sampler, h3, video
<1>12. OfClass(g, "LoraLoaderModelOnly") = {}
  BY ShapedOnes
<1> QED
  BY <1>11, <1>12 DEF WiringIssues, Unless

LEMMA TemplateInput ==
  ASSUME NEW i \in DOMAIN FIXTURE_WORKFLOW, NEW name \in DOMAIN FIXTURE_WORKFLOW[i].inputs
  PROVE  \/ \E x \in DOMAIN FIXTURE_WORKFLOW : \E slot :
              FIXTURE_WORKFLOW[i].inputs[name] = Link(x, slot)
         \/ IsLiteral(FIXTURE_WORKFLOW[i].inputs[name])
<1>1. CASE i \in {92, 119, 120, 121, 122, 123}
  BY <1>1, TemplateIds, TemplateNodes
<1>2. CASE i \in {124, 126, 127, 128, 129, 130}
  BY <1>2, TemplateIds, TemplateNodes
<1>3. CASE i = 125
  BY <1>3, TemplateIds, TemplateNodes
<1>4. CASE i = 131
  BY <1>4, TemplateIds, TemplateNodes
<1> QED
  BY <1>1, <1>2, <1>3, <1>4, TemplateIds

LEMMA ShapedParses ==
  ASSUME NEW g, g.shape = "object", Shaped(g.nodes)
  PROVE  /\ ApiReads(g) /\ Nodes(g) = g.nodes /\ ParseApiIssues(g) = {}
         /\ DOMAIN g.nodes \subseteq Int /\ IsFiniteSet(DOMAIN g.nodes)
<1> DEFINE net == g.nodes
<1>1. /\ DOMAIN net = DOMAIN FIXTURE_WORKFLOW
      /\ net = [i \in DOMAIN FIXTURE_WORKFLOW |-> net[i]]
  BY DEF Shaped
<1>2. \A i \in DOMAIN net : net[i].class \in RequiredClasses
  BY <1>1, ShapedClasses, TemplateIds DEF RequiredClasses
<1>3. "" \notin RequiredClasses /\ RequiredClasses \subseteq AllowedApiClasses
  BY DEF RequiredClasses, AllowedApiClasses
<1>4. ApiReads(g)
  BY DEF ApiReads
<1>5. Nodes(g) = net
  <2>1. {i \in DOMAIN net : net[i].class # ""} = DOMAIN net
    BY <1>2, <1>3
  <2>2. Nodes(g) = [i \in DOMAIN net |-> net[i]]
    BY <1>4, <2>1 DEF Nodes, Restrict
  <2> QED
    BY <1>1, <2>2
<1>6. ASSUME NEW i \in DOMAIN net, NEW v \in Inputs(net[i])
      PROVE  v # BadList /\ (IsConnection(v) => v.link[1] \in DOMAIN net)
  <2>1. PICK name \in DOMAIN FIXTURE_WORKFLOW[i].inputs : v = net[i].inputs[name]
    BY <1>1, <1>6 DEF Inputs, Shaped
  <2>2. CASE IsConnection(FIXTURE_WORKFLOW[i].inputs[name])
    <3>3. PICK x \in DOMAIN FIXTURE_WORKFLOW : \E slot :
            FIXTURE_WORKFLOW[i].inputs[name] = Link(x, slot)
      BY <1>1, <2>2, TemplateInput DEF IsLiteral
    <3>1. PICK slot : FIXTURE_WORKFLOW[i].inputs[name] = Link(x, slot)
      BY <3>3
    <3>2. v = Link(x, slot)
      BY <1>1, <2>1, <2>2, <3>1, ShapedLink
    <3> QED
      BY <1>1, <3>2, LinksAndOthers
  <2>3. CASE ~ IsConnection(FIXTURE_WORKFLOW[i].inputs[name])
    BY <1>1, <2>1, <2>3, ShapedLiteral, LinksAndOthers DEF IsLiteral
  <2> QED
    BY <2>2, <2>3
<1>7. /\ {j \in DOMAIN net : BadList \in Inputs(net[j])} = {}
      /\ {j \in DOMAIN net : \E v \in Inputs(net[j]) :
            IsConnection(v) /\ v.link[1] \notin DOMAIN net} = {}
  BY <1>6
<1>8. {net[i].class : i \in DOMAIN net} \ AllowedApiClasses = {}
  BY <1>2, <1>3
<1>9. ParseApiIssues(g) = {}
  BY <1>4, <1>5, <1>7, <1>8 DEF ParseApiIssues
<1>10. DOMAIN net \subseteq Int /\ IsFiniteSet(DOMAIN net)
  <2>1. DOMAIN net = {92} \cup 119 .. 131
    BY <1>1, TemplateIsSound
  <2> DEFINE low == 119
             high == 131
  <2>4. low \in Int /\ high \in Int
    OBVIOUS
  <2> HIDE DEF low, high
  <2>5. IsFiniteSet(low .. high) /\ IsFiniteSet({92})
    BY <2>4, FS_Interval, FS_Singleton
  <2>2. IsFiniteSet({92}) /\ IsFiniteSet(119 .. 131)
    BY <2>5 DEF low, high
  <2>3. IsFiniteSet({92} \cup 119 .. 131)
    BY <2>2, FS_Union
  <2> QED
    BY <2>1, <2>3
<1> QED
  BY <1>4, <1>5, <1>9, <1>10

LEMMA ShapedIsRead ==
  ASSUME NEW g, Shaped(g) PROVE ApiValueIssues(g) = {}
<1>1. ASSUME NEW i \in DOMAIN FIXTURE_WORKFLOW, NEW name \in DOMAIN FIXTURE_WORKFLOW[i].inputs,
             ~ IsConnection(FIXTURE_WORKFLOW[i].inputs[name])
      PROVE  LiteralIssues(g, {i}, name) = {}
  BY <1>1, ShapedLiteral DEF LiteralIssues, Unless, IsLiteral
<1>2. \A c \in OnePerClass : Cardinality(OfClass(g, c)) = 1
  <2>1. OnePerClass =
          { "SaveVideo", "VAEDecodeAudio", "VAEDecode", "KSamplerSelect", "BasicScheduler",
            "SamplerCustomAdvanced", "BasicGuider", "UNETLoader", "CLIPLoader", "RandomNoise",
            "CreateVideo", "MiniMaxH3ImageToVideo" }
    BY DEF OnePerClass, RequiredClasses
  <2>2. ASSUME NEW c, NEW x \in Int, OfClass(g, c) = {x} PROVE Cardinality(OfClass(g, c)) = 1
    BY <2>2, FS_Singleton
  <2>3. /\ Cardinality(OfClass(g, "SaveVideo")) = 1
        /\ Cardinality(OfClass(g, "VAEDecodeAudio")) = 1
        /\ Cardinality(OfClass(g, "VAEDecode")) = 1
        /\ Cardinality(OfClass(g, "KSamplerSelect")) = 1
    BY <2>2, ShapedOnes
  <2>4. /\ Cardinality(OfClass(g, "BasicScheduler")) = 1
        /\ Cardinality(OfClass(g, "SamplerCustomAdvanced")) = 1
        /\ Cardinality(OfClass(g, "BasicGuider")) = 1
        /\ Cardinality(OfClass(g, "UNETLoader")) = 1
    BY <2>2, ShapedOnes
  <2>5. /\ Cardinality(OfClass(g, "CLIPLoader")) = 1
        /\ Cardinality(OfClass(g, "RandomNoise")) = 1
        /\ Cardinality(OfClass(g, "CreateVideo")) = 1
        /\ Cardinality(OfClass(g, "MiniMaxH3ImageToVideo")) = 1
    BY <2>2, ShapedOnes
  <2> QED
    BY <2>1, <2>3, <2>4, <2>5
<1>3. Cardinality(OfClass(g, "VAELoader")) = 2
  <2>1. IsFiniteSet({119}) /\ Cardinality({119}) = 1
    BY FS_Singleton
  <2>2. Cardinality({119} \cup {120}) = 2
    BY <2>1, FS_AddElement
  <2>3. {119} \cup {120} = {119, 120}
    OBVIOUS
  <2>4. OfClass(g, "VAELoader") = {119, 120}
    BY ShapedOnes, Zenon
  <2>5. OfClass(g, "VAELoader") = {119} \cup {120}
    BY <2>3, <2>4, Zenon
  <2> QED
    BY <2>2, <2>5, Zenon
<1>4. \A i \in OfClass(g, "VAELoader") : LiteralIssues(g, {i}, "vae_name") = {}
  <2>1. LiteralIssues(g, {119}, "vae_name") = {} /\ LiteralIssues(g, {120}, "vae_name") = {}
    BY <1>1, TemplateNodes, TemplateIds DEF IsLiteral
  <2> QED
    BY <2>1, ShapedOnes
<1>5. \A f \in {"videoVae", "audioVae"} : Defined(VaeValue(g, f))
  BY ShapedVae, LinksAndOthers
<1>6. \A name \in {"first_frame", "last_frame"} :
        ~ Defined(InputOf(g, OneNode(g, "MiniMaxH3ImageToVideo"), name))
  <2>1. DOMAIN g[131].inputs = {"clip", "vae", "prompt", "width", "height", "length"}
    BY SMTT(60), TemplateIds, TemplateNodes DEF Shaped
  <2> QED
    BY <2>1, ShapedOneNode, InputOfOne DEF Defined
<1>7. \A f \in DOMAIN LiteralInputs :
        LiteralIssues(g, OneNode(g, LiteralInputs[f][1]), LiteralInputs[f][2]) = {}
  BY <1>1, ShapedLiterals
<1>8. /\ {Issue("NODE_CLASS_MISSING", <<"api", c>>) :
            c \in {d \in OnePerClass : Cardinality(OfClass(g, d)) # 1}} = {}
      /\ UNION {LiteralIssues(g, {i}, "vae_name") : i \in OfClass(g, "VAELoader")} = {}
      /\ UNION {LiteralIssues(g, OneNode(g, LiteralInputs[f][1]), LiteralInputs[f][2]) :
                  f \in DOMAIN LiteralInputs} = {}
  BY <1>2, <1>4, <1>7
<1> QED
  BY <1>3, <1>5, <1>6, <1>8 DEF ApiValueIssues, Unless

LEMMA ShapedIsClean ==
  ASSUME NEW g, g.shape = "object", Shaped(g.nodes)
  PROVE  Clean(g) /\ Nodes(g) = g.nodes
BY ShapedParses, ShapedIsRead, ShapedWired DEF ApiIssues, Clean

(* What the profile reads of a shaped graph: its literals, where they are.  *)
LiteralsOf(net) ==
  [ prompt |-> net[131].inputs.prompt, width |-> net[131].inputs.width,
    height |-> net[131].inputs.height, frames |-> net[131].inputs.length,
    seed |-> net[129].inputs.noise_seed, steps |-> net[124].inputs.steps,
    fps |-> net[130].inputs.fps, diffusionModel |-> net[127].inputs.unet_name,
    textEncoder |-> net[128].inputs.clip_name, outputPrefix |-> net[92].inputs.filename_prefix ]

LEMMA ShapedValues ==
  ASSUME NEW g, g.shape = "object", Shaped(g.nodes)
  PROVE  /\ \A f \in DOMAIN LiteralInputs : ApiValues(g)[f] = Literal(LiteralsOf(g.nodes)[f])
         /\ ApiValues(g).turbo = Flag(FALSE)
         /\ \A f \in Vaes : ApiValues(g)[f] = Txt(ModelFile[f])
<1> DEFINE net == g.nodes
           Read(f) == Literal(InputOf(net, OneNode(net, LiteralInputs[f][1]), LiteralInputs[f][2]))
<1>1. Nodes(g) = net /\ ApiReads(g)
  BY ShapedIsClean DEF Clean
<1>2. \A f \in DOMAIN LiteralInputs : ApiValues(g)[f] = Read(f)
  BY <1>1, FieldsOf DEF ApiValues, Vaes, ApiFields
<1>3. ApiValues(g).turbo = Flag(FALSE) /\ \A f \in Vaes : ApiValues(g)[f] = VaeValue(net, f)
  BY <1>1 DEF ApiValues, Vaes, ApiFields
<1>4. ASSUME NEW i \in DOMAIN FIXTURE_WORKFLOW, NEW name \in DOMAIN FIXTURE_WORKFLOW[i].inputs
      PROVE  InputOf(net, {i}, name) = net[i].inputs[name]
  BY <1>4, ShapedInput
<1> HIDE DEF net
<1>5. /\ InputOf(net, {131}, "prompt") = net[131].inputs.prompt
      /\ InputOf(net, {131}, "width") = net[131].inputs.width
      /\ InputOf(net, {131}, "height") = net[131].inputs.height
      /\ InputOf(net, {131}, "length") = net[131].inputs.length
  BY <1>4, TemplateIds, TemplateNodes
<1>6. /\ InputOf(net, {129}, "noise_seed") = net[129].inputs.noise_seed
      /\ InputOf(net, {124}, "steps") = net[124].inputs.steps
      /\ InputOf(net, {130}, "fps") = net[130].inputs.fps
      /\ InputOf(net, {127}, "unet_name") = net[127].inputs.unet_name
      /\ InputOf(net, {128}, "clip_name") = net[128].inputs.clip_name
      /\ InputOf(net, {92}, "filename_prefix") = net[92].inputs.filename_prefix
  BY <1>4, TemplateIds, TemplateNodes
<1>7. /\ OneNode(net, "MiniMaxH3ImageToVideo") = {131} /\ OneNode(net, "RandomNoise") = {129}
      /\ OneNode(net, "BasicScheduler") = {124} /\ OneNode(net, "CreateVideo") = {130}
      /\ OneNode(net, "UNETLoader") = {127} /\ OneNode(net, "CLIPLoader") = {128}
      /\ OneNode(net, "SaveVideo") = {92}
  BY ShapedOneNode DEF net
<1>8. /\ Read("prompt") = Literal(InputOf(net, {131}, "prompt"))
       /\ Read("width") = Literal(InputOf(net, {131}, "width"))
       /\ Read("height") = Literal(InputOf(net, {131}, "height"))
       /\ Read("frames") = Literal(InputOf(net, {131}, "length"))
       /\ Read("seed") = Literal(InputOf(net, {129}, "noise_seed"))
       /\ Read("steps") = Literal(InputOf(net, {124}, "steps"))
       /\ Read("fps") = Literal(InputOf(net, {130}, "fps"))
       /\ Read("diffusionModel") = Literal(InputOf(net, {127}, "unet_name"))
       /\ Read("textEncoder") = Literal(InputOf(net, {128}, "clip_name"))
       /\ Read("outputPrefix") = Literal(InputOf(net, {92}, "filename_prefix"))
  <2>1. Read("prompt") = Literal(InputOf(net, {131}, "prompt"))
    <3>1. LiteralInputs["prompt"][1] = "MiniMaxH3ImageToVideo" /\ LiteralInputs["prompt"][2] = "prompt"
      BY DEF LiteralInputs
    <3>2. OneNode(net, "MiniMaxH3ImageToVideo") = {131}
      BY <1>7
    <3> QED
      BY <3>1, <3>2
  <2>2. Read("width") = Literal(InputOf(net, {131}, "width"))
    <3>1. LiteralInputs["width"][1] = "MiniMaxH3ImageToVideo" /\ LiteralInputs["width"][2] = "width"
      BY DEF LiteralInputs
    <3>2. OneNode(net, "MiniMaxH3ImageToVideo") = {131}
      BY <1>7
    <3> QED
      BY <3>1, <3>2
  <2>3. Read("height") = Literal(InputOf(net, {131}, "height"))
    <3>1. LiteralInputs["height"][1] = "MiniMaxH3ImageToVideo" /\ LiteralInputs["height"][2] = "height"
      BY DEF LiteralInputs
    <3>2. OneNode(net, "MiniMaxH3ImageToVideo") = {131}
      BY <1>7
    <3> QED
      BY <3>1, <3>2
  <2>4. Read("frames") = Literal(InputOf(net, {131}, "length"))
    <3>1. LiteralInputs["frames"][1] = "MiniMaxH3ImageToVideo" /\ LiteralInputs["frames"][2] = "length"
      BY DEF LiteralInputs
    <3>2. OneNode(net, "MiniMaxH3ImageToVideo") = {131}
      BY <1>7
    <3> QED
      BY <3>1, <3>2
  <2>5. Read("seed") = Literal(InputOf(net, {129}, "noise_seed"))
    <3>1. LiteralInputs["seed"][1] = "RandomNoise" /\ LiteralInputs["seed"][2] = "noise_seed"
      BY DEF LiteralInputs
    <3>2. OneNode(net, "RandomNoise") = {129}
      BY <1>7
    <3> QED
      BY <3>1, <3>2
  <2>6. Read("steps") = Literal(InputOf(net, {124}, "steps"))
    <3>1. LiteralInputs["steps"][1] = "BasicScheduler" /\ LiteralInputs["steps"][2] = "steps"
      BY DEF LiteralInputs
    <3>2. OneNode(net, "BasicScheduler") = {124}
      BY <1>7
    <3> QED
      BY <3>1, <3>2
  <2>7. Read("fps") = Literal(InputOf(net, {130}, "fps"))
    <3>1. LiteralInputs["fps"][1] = "CreateVideo" /\ LiteralInputs["fps"][2] = "fps"
      BY DEF LiteralInputs
    <3>2. OneNode(net, "CreateVideo") = {130}
      BY <1>7
    <3> QED
      BY <3>1, <3>2
  <2>8. Read("diffusionModel") = Literal(InputOf(net, {127}, "unet_name"))
    <3>1. LiteralInputs["diffusionModel"][1] = "UNETLoader" /\ LiteralInputs["diffusionModel"][2] = "unet_name"
      BY DEF LiteralInputs
    <3>2. OneNode(net, "UNETLoader") = {127}
      BY <1>7
    <3> QED
      BY <3>1, <3>2
  <2>9. Read("textEncoder") = Literal(InputOf(net, {128}, "clip_name"))
    <3>1. LiteralInputs["textEncoder"][1] = "CLIPLoader" /\ LiteralInputs["textEncoder"][2] = "clip_name"
      BY DEF LiteralInputs
    <3>2. OneNode(net, "CLIPLoader") = {128}
      BY <1>7
    <3> QED
      BY <3>1, <3>2
  <2>10. Read("outputPrefix") = Literal(InputOf(net, {92}, "filename_prefix"))
    <3>1. LiteralInputs["outputPrefix"][1] = "SaveVideo" /\ LiteralInputs["outputPrefix"][2] = "filename_prefix"
      BY DEF LiteralInputs
    <3>2. OneNode(net, "SaveVideo") = {92}
      BY <1>7
    <3> QED
      BY <3>1, <3>2
  <2> QED
    BY <2>1, <2>2, <2>3, <2>4, <2>5, <2>6, <2>7, <2>8, <2>9, <2>10
<1>9. DOMAIN LiteralInputs = {"prompt", "width", "height", "frames", "seed", "steps", "fps",
                              "diffusionModel", "textEncoder", "outputPrefix"}
  BY DEF LiteralInputs
<1> HIDE DEF Read
<1>10. \A f \in DOMAIN LiteralInputs : Read(f) = Literal(LiteralsOf(net)[f])
  BY <1>5, <1>6, <1>8, <1>9 DEF LiteralsOf
<1>11. \A f \in Vaes : ApiValues(g)[f] = Txt(ModelFile[f])
  BY <1>3, ShapedVae DEF Vaes, net
<1> QED
  BY <1>2, <1>3, <1>10, <1>11 DEF net

-----------------------------------------------------------------------------
(* The compilation of the template *)

IsGroup(group) ==
  /\ DOMAIN group \subseteq Nat
  /\ \A j \in DOMAIN group : group[j].code # "none"

(* Without a code every check of every group holds. *)
LEMMA NoneFailed ==
  ASSUME NEW S, NEW groups \in Seq(S), \A group \in S : IsGroup(group),
         FirstCode(groups) = "none"
  PROVE  \A group \in Range(groups) : \A j \in DOMAIN group : group[j].holds
<1> DEFINE failing == {i \in DOMAIN groups : Failing(groups[i]) # {}}
           first == groups[Min(failing)]
<1>1. ASSUME failing # {} PROVE FALSE
  <2>1. failing \subseteq Nat
    OBVIOUS
  <2>2. Min(failing) \in failing
    <3> HIDE DEF failing
    <3> QED
      BY <1>1, <2>1, LeastIsOne
  <2>3. IsGroup(first) /\ Failing(first) # {}
    <3>1. \A k \in failing : IsGroup(groups[k]) /\ Failing(groups[k]) # {}
      OBVIOUS
    <3> HIDE DEF failing
    <3> QED
      BY <2>2, <3>1
  <2> HIDE DEF first
  <2>4. Failing(first) \subseteq DOMAIN first /\ DOMAIN first \subseteq Nat
    BY <2>3 DEF Failing, IsGroup
  <2>5. Min(Failing(first)) \in DOMAIN first
    BY <2>3, <2>4, LeastIsOne
  <2>6. first[Min(Failing(first))].code # "none"
    BY <2>3, <2>5 DEF IsGroup
  <2>7. FirstCode(groups) = first[Min(Failing(first))].code
    BY <1>1 DEF FirstCode, first
  <2> QED
    BY <2>6, <2>7
<1>2. \A i \in DOMAIN groups : \A j \in DOMAIN groups[i] : groups[i][j].holds
  BY <1>1 DEF Failing
<1> QED
  BY <1>2 DEF Range

LEMMA Concatenated ==
  ASSUME NEW S, NEW s \in Seq(S), NEW t \in Seq(S)
  PROVE  s \o t \in Seq(S) /\ Range(s) \subseteq Range(s \o t) /\ Range(t) \subseteq Range(s \o t)
<1>1. s \o t \in Seq(S)
  OBVIOUS
<1>2. ASSUME NEW i \in DOMAIN s PROVE s[i] \in Range(s \o t)
  <2>1. i \in DOMAIN (s \o t) /\ (s \o t)[i] = s[i]
    OBVIOUS
  <2> QED
    BY <2>1 DEF Range
<1>3. ASSUME NEW i \in DOMAIN t PROVE t[i] \in Range(s \o t)
  <2>1. Len(s) + i \in DOMAIN (s \o t) /\ (s \o t)[Len(s) + i] = t[i]
    OBVIOUS
  <2> QED
    BY <2>1 DEF Range
<1> QED
  BY <1>1, <1>2, <1>3 DEF Range

(* The groups of checks of a compilation, and that each is among them. *)
LEMMA TemplateGroups ==
  ASSUME NEW input, NEW w, NEW m, NEW A, m.required \in Seq(A), NEW B, m.bindings \in Seq(B)
  PROVE  LET groups == <<InputChecks(input)>> \o ManifestChecks(w, m)
             bound == {m.bindings[i].name : i \in DOMAIN m.bindings}
         IN \E S : /\ groups \in Seq(S) /\ \A group \in S : IsGroup(group)
                   /\ InputChecks(input) \in Range(groups)
                   /\ \A i \in DOMAIN m.bindings :
                        BindingChecks(w, m.bindings, i) \in Range(groups)
                   /\ <<Check(SemanticNames \subseteq bound, "MISSING_BINDING")>> \in Range(groups)
<1> DEFINE bound == {m.bindings[i].name : i \in DOMAIN m.bindings}
           classes == <<Check(\A id \in DOMAIN w : w[id].class # "", "INVALID_WORKFLOW")>>
           last == <<Check(SemanticNames \subseteq bound, "MISSING_BINDING")>>
           input4 == InputChecks(input)
           begin == <<classes>>
           required == AllRequired(w, m)
           bindings == AllBindings(w, m)
           end == <<last>>
           S == {input4, classes, last}
                  \cup {RequiredChecks(w, m.required[i]) : i \in DOMAIN m.required}
                  \cup {BindingChecks(w, m.bindings, i) : i \in DOMAIN m.bindings}
<1>1. /\ IsGroup(input4) /\ IsGroup(classes) /\ IsGroup(last)
      /\ \A r : IsGroup(RequiredChecks(w, r))
      /\ \A i : IsGroup(BindingChecks(w, m.bindings, i))
  <2>1. /\ DOMAIN input4 = 1 .. 4 /\ input4[1].code = "INVALID_PARAMETER"
        /\ input4[2].code = "INVALID_PARAMETER" /\ input4[3].code = "INVALID_PREVIEW_DIMENSIONS"
        /\ input4[4].code = "INVALID_DURATION_GRID"
    BY DEF InputChecks, Check
  <2>2. /\ DOMAIN classes = 1 .. 1 /\ classes[1].code = "INVALID_WORKFLOW"
        /\ DOMAIN last = 1 .. 1 /\ last[1].code = "MISSING_BINDING"
    <3> DEFINE named == Check(\A id \in DOMAIN w : w[id].class # "", "INVALID_WORKFLOW")
               complete == Check(SemanticNames \subseteq bound, "MISSING_BINDING")
    <3>1. named.code = "INVALID_WORKFLOW"
      BY DEF Check
    <3>2. complete.code = "MISSING_BINDING"
      BY DEF Check
    <3>3. classes = <<named>> /\ last = <<complete>>
      OBVIOUS
    <3> HIDE DEF named, complete, classes, last
    <3> QED
      BY <3>1, <3>2, <3>3
  <2>3. ASSUME NEW r
        PROVE  LET group == RequiredChecks(w, r)
               IN /\ DOMAIN group = 1 .. 2 /\ group[1].code = "MISSING_NODE"
                  /\ group[2].code = "MISMATCHED_NODE_CLASS"
    BY DEF RequiredChecks, Check
  <2>4. ASSUME NEW i
        PROVE  LET group == BindingChecks(w, m.bindings, i)
               IN /\ DOMAIN group = 1 .. 6 /\ group[1].code = "INVALID_WORKFLOW"
                  /\ group[2].code = "INVALID_WORKFLOW" /\ group[3].code = "MISSING_BINDING"
                  /\ group[4].code = "MISSING_NODE" /\ group[5].code = "MISMATCHED_NODE_CLASS"
                  /\ group[6].code = "MISSING_BINDING_PATH"
    BY DEF BindingChecks, Check
  <2> HIDE DEF input4, classes, last
  <2>5. IsGroup(input4) /\ IsGroup(classes) /\ IsGroup(last)
    BY <2>1, <2>2 DEF IsGroup
  <2>6. \A r : IsGroup(RequiredChecks(w, r))
    BY <2>3 DEF IsGroup
  <2>7. \A i : IsGroup(BindingChecks(w, m.bindings, i))
    BY <2>4 DEF IsGroup
  <2> QED
    BY <2>5, <2>6, <2>7
<1>2. \A group \in S : IsGroup(group)
  BY <1>1
<1>3. input4 \in S /\ classes \in S /\ last \in S
  OBVIOUS
<1>4. required \in Seq(S) /\ bindings \in Seq(S)
  <2>1. \A i \in DOMAIN m.required : RequiredChecks(w, m.required[i]) \in S
    OBVIOUS
  <2>2. \A i \in DOMAIN m.bindings : BindingChecks(w, m.bindings, i) \in S
    OBVIOUS
  <2> HIDE DEF S
  <2>3. required \in Seq(S)
    BY <2>1 DEF AllRequired
  <2>4. bindings \in Seq(S)
    BY <2>2 DEF AllBindings
  <2> QED
    BY <2>3, <2>4
<1>5. \A i \in DOMAIN m.bindings : BindingChecks(w, m.bindings, i) \in Range(bindings)
  BY DEF AllBindings, Range
<1>6. ManifestChecks(w, m) = begin \o required \o bindings \o end
  BY DEF ManifestChecks
<1> HIDE DEF S, required, bindings, last, classes, input4
<1>7. begin \in Seq(S) /\ end \in Seq(S) /\ last \in Range(end)
  BY <1>3 DEF Range
<1>8. <<input4>> \in Seq(S) /\ input4 \in Range(<<input4>>)
  BY <1>3 DEF Range
<1> DEFINE ofManifest == begin \o required \o bindings \o end
<1> HIDE DEF begin, end
<1>9. /\ ofManifest \in Seq(S) /\ last \in Range(ofManifest)
      /\ Range(bindings) \subseteq Range(ofManifest)
  <2>1. begin \o required \in Seq(S)
    BY <1>4, <1>7, Concatenated
  <2>2. /\ begin \o required \o bindings \in Seq(S)
        /\ Range(bindings) \subseteq Range(begin \o required \o bindings)
    BY <1>4, <2>1, Concatenated
  <2> QED
    BY <1>7, <2>2, Concatenated
<1> HIDE DEF ofManifest
<1>10. /\ <<input4>> \o ofManifest \in Seq(S)
       /\ Range(<<input4>>) \subseteq Range(<<input4>> \o ofManifest)
       /\ Range(ofManifest) \subseteq Range(<<input4>> \o ofManifest)
  BY <1>8, <1>9, Concatenated
<1>11. <<input4>> \o ofManifest = <<InputChecks(input)>> \o ManifestChecks(w, m)
  BY <1>6 DEF ofManifest, input4
<1> QED
  BY <1>2, <1>5, <1>8, <1>9, <1>10, <1>11 DEF last, input4

(* Where the shipped manifest binds each parameter. *)
Target == [name \in SemanticNames |->
  CASE name = "prompt"         -> <<131, "prompt">>
    [] name = "width"          -> <<131, "width">>
    [] name = "height"         -> <<131, "height">>
    [] name = "durationFrames" -> <<131, "length">>
    [] name = "seed"           -> <<129, "noise_seed">>
    [] name = "steps"          -> <<124, "steps">>]

LEMMA Targets ==
  /\ Target["prompt"] = <<131, "prompt">> /\ Target["width"] = <<131, "width">>
  /\ Target["height"] = <<131, "height">> /\ Target["durationFrames"] = <<131, "length">>
  /\ Target["seed"] = <<129, "noise_seed">> /\ Target["steps"] = <<124, "steps">>
BY DEF Target, SemanticNames

LEMMA DistinctTargets ==
  ASSUME NEW name \in SemanticNames, NEW other \in SemanticNames, Target[name] = Target[other]
  PROVE  name = other
BY Targets DEF SemanticNames

LEMMA ShippedBindings ==
  ASSUME NEW b \in Range(FIXTURE_MANIFEST.bindings)
  PROVE  b.name \in SemanticNames /\ Target[b.name] = <<b.id, b.path[2]>>
<1> DEFINE shipped == FIXTURE_MANIFEST.bindings
<1>1. shipped = << Binding("prompt", 131, "MiniMaxH3ImageToVideo", "prompt"),
                   Binding("width", 131, "MiniMaxH3ImageToVideo", "width"),
                   Binding("height", 131, "MiniMaxH3ImageToVideo", "height"),
                   Binding("durationFrames", 131, "MiniMaxH3ImageToVideo", "length"),
                   Binding("seed", 129, "RandomNoise", "noise_seed"),
                   Binding("steps", 124, "BasicScheduler", "steps") >>
  BY DEF FIXTURE_MANIFEST
<1> HIDE DEF shipped
<1>2. PICK i \in 1 .. 6 : b = shipped[i]
  BY <1>1 DEF Range, shipped
<1>3. ASSUME NEW name, NEW id, NEW class, NEW field, b = Binding(name, id, class, field)
      PROVE  b.name = name /\ b.id = id /\ b.path[2] = field
  BY <1>3 DEF Binding
<1>4. CASE i = 1
  BY <1>1, <1>2, <1>3, <1>4, Targets DEF SemanticNames
<1>5. CASE i = 2
  BY <1>1, <1>2, <1>3, <1>5, Targets DEF SemanticNames
<1>6. CASE i = 3
  BY <1>1, <1>2, <1>3, <1>6, Targets DEF SemanticNames
<1>7. CASE i = 4
  BY <1>1, <1>2, <1>3, <1>7, Targets DEF SemanticNames
<1>8. CASE i = 5
  BY <1>1, <1>2, <1>3, <1>8, Targets DEF SemanticNames
<1>9. CASE i = 6
  BY <1>1, <1>2, <1>3, <1>9, Targets DEF SemanticNames
<1> QED
  BY <1>2, <1>4, <1>5, <1>6, <1>7, <1>8, <1>9

(* What a compilation without an error has found of its manifest. *)
LEMMA ChecksPassed ==
  ASSUME NEW input, NEW m \in Manifests, Compile(input, FIXTURE_WORKFLOW, m).error = "none"
  PROVE  /\ DurationAllowed(input.duration)
         /\ DOMAIN m.bindings \subseteq Nat
         /\ \A i \in DOMAIN m.bindings :
              /\ \A j \in 1 .. i - 1 : m.bindings[j].name # m.bindings[i].name
              /\ m.bindings[i].name \in SemanticNames
              /\ IsInput(FIXTURE_WORKFLOW, m.bindings[i].id, m.bindings[i].path)
         /\ \A name \in SemanticNames : \E i \in DOMAIN m.bindings : m.bindings[i].name = name
<1> DEFINE w == FIXTURE_WORKFLOW
           groups == <<InputChecks(input)>> \o ManifestChecks(w, m)
           bound == {m.bindings[i].name : i \in DOMAIN m.bindings}
           A == Int \X STRING
           B == [name : STRING, id : Int, class : STRING, path : Seq(STRING)]
<1>1. m.required \in Seq(A) /\ m.bindings \in Seq(B)
  BY CanvasAssumption
<1>2. FirstCode(groups) = "none"
  BY DEF Compile
<1> HIDE DEF A, B, w
<1>3. PICK S : /\ groups \in Seq(S) /\ \A group \in S : IsGroup(group)
               /\ InputChecks(input) \in Range(groups)
               /\ \A i \in DOMAIN m.bindings : BindingChecks(w, m.bindings, i) \in Range(groups)
               /\ <<Check(SemanticNames \subseteq bound, "MISSING_BINDING")>> \in Range(groups)
  BY <1>1, TemplateGroups, Zenon
<1> HIDE DEF groups
<1>4. \A group \in Range(groups) : \A j \in DOMAIN group : group[j].holds
  BY <1>2, <1>3, NoneFailed
<1>5. DurationAllowed(input.duration)
  <2>1. 4 \in DOMAIN InputChecks(input) /\ InputChecks(input)[4].holds = DurationAllowed(input.duration)
    BY DEF InputChecks, Check
  <2> QED
    BY <1>3, <1>4, <2>1
<1>6. ASSUME NEW i \in DOMAIN m.bindings
      PROVE  /\ \A j \in 1 .. i - 1 : m.bindings[j].name # m.bindings[i].name
             /\ m.bindings[i].name \in SemanticNames
             /\ IsInput(w, m.bindings[i].id, m.bindings[i].path)
  <2> DEFINE group == BindingChecks(w, m.bindings, i)
  <2>1. /\ 1 \in DOMAIN group /\ 2 \in DOMAIN group /\ 6 \in DOMAIN group
    BY DEF BindingChecks
  <2>2. group[1].holds = (\A j \in 1 .. i - 1 : m.bindings[j].name # m.bindings[i].name)
    BY DEF BindingChecks, Check
  <2>3. group[2].holds = (m.bindings[i].name \in SemanticNames)
    BY DEF BindingChecks, Check
  <2>4. group[6].holds = IsInput(w, m.bindings[i].id, m.bindings[i].path)
    BY DEF BindingChecks, Check
  <2> HIDE DEF group
  <2>5. group[1].holds /\ group[2].holds /\ group[6].holds
    BY <1>3, <1>4, <2>1 DEF group
  <2> QED
    BY <2>2, <2>3, <2>4, <2>5
<1>7. SemanticNames \subseteq bound
  <2> DEFINE last == <<Check(SemanticNames \subseteq bound, "MISSING_BINDING")>>
  <2>1. 1 \in DOMAIN last /\ last[1].holds = (SemanticNames \subseteq bound)
    BY DEF Check
  <2>2. last \in Range(groups)
    BY <1>3
  <2> HIDE DEF last
  <2>3. last[1].holds
    BY <1>4, <2>1, <2>2
  <2> QED
    BY <2>1, <2>3
<1>8. DOMAIN m.bindings \subseteq Nat
  BY <1>1
<1> QED
  BY <1>5, <1>6, <1>7, <1>8 DEF w

(* Each parameter is bound once, where the shipped manifest binds it, and   *)
(* nothing else is.                                                        *)
LEMMA OneSetting ==
  ASSUME NEW input, NEW m \in Manifests, Compile(input, FIXTURE_WORKFLOW, m).error = "none"
  PROVE  /\ \A name \in SemanticNames : \E i \in Int :
              /\ Setting(m, Target[name][1], Target[name][2]) = {i}
              /\ m.bindings[i].name = name
         /\ \A id, field : (\A name \in SemanticNames : Target[name] # <<id, field>>) =>
              Setting(m, id, field) = {}
<1> DEFINE bindings == m.bindings
<1>1. /\ DOMAIN bindings \subseteq Nat
      /\ \A i \in DOMAIN bindings :
           /\ \A j \in 1 .. i - 1 : bindings[j].name # bindings[i].name
           /\ bindings[i].name \in SemanticNames
           /\ IsInput(FIXTURE_WORKFLOW, bindings[i].id, bindings[i].path)
      /\ \A name \in SemanticNames : \E i \in DOMAIN bindings : bindings[i].name = name
  BY ChecksPassed
<1>2. bindings \in Seq([name : STRING, id : Int, class : STRING, path : Seq(STRING)])
  BY CanvasAssumption
<1>3. ASSUME NEW i \in DOMAIN bindings
      PROVE  Target[bindings[i].name] = <<bindings[i].id, bindings[i].path[2]>>
  <2> DEFINE b == bindings[i]
  <2>1. b \in Range(m.bindings)
    BY DEF Range
  <2>2. b.name \in SemanticNames /\ IsInput(FIXTURE_WORKFLOW, b.id, b.path)
    BY <1>1
  <2> HIDE DEF b
  <2>3. PICK shipped \in Range(FIXTURE_MANIFEST.bindings) :
          shipped.name = b.name /\ shipped.id = b.id /\ shipped.path = b.path
    BY <2>1, <2>2, CanvasAssumption
  <2>4. Target[b.name] = <<b.id, b.path[2]>>
    BY <2>3, ShippedBindings
  <2> QED
    BY <2>4 DEF b
<1>4. DOMAIN bindings = 1 .. Len(bindings)
  BY <1>2
<1>5. ASSUME NEW i \in DOMAIN bindings, NEW j \in DOMAIN bindings,
             bindings[i].name = bindings[j].name
      PROVE  i = j
  <2>1. i \in Nat /\ j \in Nat /\ i >= 1 /\ j >= 1
    BY <1>2, <1>4, <1>5
  <2>2. ~ (i < j) /\ ~ (j < i)
    BY <1>1, <1>5, <2>1
  <2> QED
    BY <2>1, <2>2
<1> HIDE DEF bindings
<1>6. ASSUME NEW id, NEW field
      PROVE  Setting(m, id, field) =
               {i \in DOMAIN bindings : Target[bindings[i].name] = <<id, field>>}
  BY <1>3 DEF Setting, bindings
<1>7. ASSUME NEW name \in SemanticNames
      PROVE  \E i \in Int : /\ Setting(m, Target[name][1], Target[name][2]) = {i}
                            /\ bindings[i].name = name
  <2>1. PICK i \in DOMAIN bindings : bindings[i].name = name
    BY <1>1
  <2>2. Target[name] = <<Target[name][1], Target[name][2]>>
    BY Targets DEF SemanticNames
  <2>3. Setting(m, Target[name][1], Target[name][2]) =
          {k \in DOMAIN bindings : Target[bindings[k].name] = Target[name]}
    BY <1>6, <2>2
  <2>4. \A k \in DOMAIN bindings : Target[bindings[k].name] = Target[name] => k = i
    BY <1>1, <1>5, <2>1, DistinctTargets
  <2>5. {k \in DOMAIN bindings : Target[bindings[k].name] = Target[name]} = {i}
    BY <2>1, <2>4
  <2>6. i \in Int
    BY <1>1
  <2> QED
    BY <2>1, <2>3, <2>5, <2>6
<1>8. ASSUME NEW id, NEW field, \A name \in SemanticNames : Target[name] # <<id, field>>
      PROVE  Setting(m, id, field) = {}
  BY <1>1, <1>6, <1>8
<1> QED
  BY <1>7, <1>8 DEF bindings

LEMMA BoundInput ==
  ASSUME NEW input, NEW m, NEW i \in DOMAIN FIXTURE_WORKFLOW,
         NEW name \in DOMAIN FIXTURE_WORKFLOW[i].inputs
  PROVE  LET net == Bound(FIXTURE_WORKFLOW, m, input)
         IN /\ net = [k \in DOMAIN FIXTURE_WORKFLOW |-> net[k]]
            /\ net[i].class = FIXTURE_WORKFLOW[i].class
            /\ DOMAIN net[i].inputs = DOMAIN FIXTURE_WORKFLOW[i].inputs
            /\ net[i].inputs[name] =
                 IF Setting(m, i, name) = {} THEN FIXTURE_WORKFLOW[i].inputs[name]
                 ELSE SemanticValue(input, m.bindings[Max(Setting(m, i, name))].name)
<1> DEFINE net == Bound(FIXTURE_WORKFLOW, m, input)
           Value(id, field) ==
             IF Setting(m, id, field) = {} THEN FIXTURE_WORKFLOW[id].inputs[field]
             ELSE SemanticValue(input, m.bindings[Max(Setting(m, id, field))].name)
           values(id) == [field \in DOMAIN FIXTURE_WORKFLOW[id].inputs |-> Value(id, field)]
<1>1. net = [id \in DOMAIN FIXTURE_WORKFLOW |-> Node(FIXTURE_WORKFLOW[id].class, values(id))]
  BY Zenon DEF Bound
<1>2. values(i)[name] = Value(i, name) /\ DOMAIN values(i) = DOMAIN FIXTURE_WORKFLOW[i].inputs
  OBVIOUS
<1> HIDE DEF values, net
<1>3. net[i] = Node(FIXTURE_WORKFLOW[i].class, values(i))
  BY <1>1
<1>4. net[i].class = FIXTURE_WORKFLOW[i].class /\ net[i].inputs = values(i)
  BY <1>3 DEF Node
<1>5. net = [k \in DOMAIN FIXTURE_WORKFLOW |-> net[k]]
  BY <1>1
<1> QED
  BY <1>2, <1>4, <1>5 DEF net

LEMMA SemanticIsLiteral ==
  ASSUME NEW input, NEW name \in SemanticNames
  PROVE  IsLiteral(SemanticValue(input, name))
<1>1. (\A n : IsLiteral(Num(n))) /\ (\A t : IsLiteral(Txt(t)))
  BY LinksAndOthers
<1> QED
  BY <1>1 DEF SemanticValue, SemanticNames

LEMMA TemplateVaes ==
  /\ FIXTURE_WORKFLOW[119].inputs.vae_name = Txt(ModelFile["videoVae"])
  /\ FIXTURE_WORKFLOW[120].inputs.vae_name = Txt(ModelFile["audioVae"])
BY DEF FIXTURE_WORKFLOW, Node

(* The targets are literals of the template. *)
LEMMA TargetsAreLiterals ==
  ASSUME NEW name \in SemanticNames
  PROVE  /\ Target[name][1] \in DOMAIN FIXTURE_WORKFLOW
         /\ Target[name][2] \in DOMAIN FIXTURE_WORKFLOW[Target[name][1]].inputs
         /\ IsLiteral(FIXTURE_WORKFLOW[Target[name][1]].inputs[Target[name][2]])
<1>1. CASE name \in {"prompt", "width", "height", "durationFrames"}
  <2>1. Target[name][1] = 131 /\ Target[name][2] \in {"prompt", "width", "height", "length"}
    BY <1>1, Targets
  <2> QED
    BY <2>1, TemplateIds, TemplateNodes
<1>2. CASE name = "seed"
  BY <1>2, Targets, TemplateIds, TemplateNodes
<1>3. CASE name = "steps"
  BY <1>3, Targets, TemplateIds, TemplateNodes
<1> QED
  BY <1>1, <1>2, <1>3 DEF SemanticNames

(* The compiled template: its shape, and the values at the targets. *)
LEMMA BoundIsShaped ==
  ASSUME NEW input, NEW m \in Manifests, Compile(input, FIXTURE_WORKFLOW, m).error = "none"
  PROVE  LET net == Bound(FIXTURE_WORKFLOW, m, input)
         IN /\ Shaped(net)
            /\ \A name \in SemanticNames :
                 net[Target[name][1]].inputs[Target[name][2]] = SemanticValue(input, name)
<1> DEFINE net == Bound(FIXTURE_WORKFLOW, m, input)
<1>1. ASSUME NEW i \in DOMAIN FIXTURE_WORKFLOW, NEW field \in DOMAIN FIXTURE_WORKFLOW[i].inputs,
             \A name \in SemanticNames : Target[name] # <<i, field>>
      PROVE  net[i].inputs[field] = FIXTURE_WORKFLOW[i].inputs[field]
  <2>1. Setting(m, i, field) = {}
    BY <1>1, OneSetting
  <2> QED
    BY <2>1, BoundInput
<1>2. ASSUME NEW name \in SemanticNames
      PROVE  net[Target[name][1]].inputs[Target[name][2]] = SemanticValue(input, name)
  <2> DEFINE i == Target[name][1]
             field == Target[name][2]
  <2>1. i \in DOMAIN FIXTURE_WORKFLOW /\ field \in DOMAIN FIXTURE_WORKFLOW[i].inputs
    BY TargetsAreLiterals
  <2>2. PICK k \in Int : Setting(m, i, field) = {k} /\ m.bindings[k].name = name
    BY OneSetting
  <2> HIDE DEF i, field
  <2>3. Max(Setting(m, i, field)) = k
    BY <2>2, LeastOfOne
  <2>4. net[i].inputs[field] =
          IF Setting(m, i, field) = {} THEN FIXTURE_WORKFLOW[i].inputs[field]
          ELSE SemanticValue(input, m.bindings[Max(Setting(m, i, field))].name)
    BY <2>1, BoundInput
  <2>5. net[i].inputs[field] = SemanticValue(input, name)
    BY <2>2, <2>3, <2>4
  <2> QED
    BY <2>5 DEF i, field
<1>3. ASSUME NEW i \in DOMAIN FIXTURE_WORKFLOW
      PROVE  /\ net = [k \in DOMAIN FIXTURE_WORKFLOW |-> net[k]]
             /\ net[i].class = FIXTURE_WORKFLOW[i].class
             /\ DOMAIN net[i].inputs = DOMAIN FIXTURE_WORKFLOW[i].inputs
  <2>1. \E field : field \in DOMAIN FIXTURE_WORKFLOW[i].inputs
    <3>1. CASE i \in {92, 119, 120, 121, 122, 123, 124}
      BY <3>1, TemplateNodes
    <3>2. CASE i \in {125, 126, 127, 128, 129, 130, 131}
      BY <3>2, TemplateNodes
    <3> QED
      BY <3>1, <3>2, TemplateIds
  <2> QED
    BY <2>1, BoundInput
<1> HIDE DEF net
<1>4. ASSUME NEW i \in DOMAIN FIXTURE_WORKFLOW, NEW field \in DOMAIN FIXTURE_WORKFLOW[i].inputs
      PROVE  IF IsConnection(FIXTURE_WORKFLOW[i].inputs[field])
             THEN net[i].inputs[field] = FIXTURE_WORKFLOW[i].inputs[field]
             ELSE IsLiteral(net[i].inputs[field])
  <2>1. CASE \A name \in SemanticNames : Target[name] # <<i, field>>
    <3>1. net[i].inputs[field] = FIXTURE_WORKFLOW[i].inputs[field]
      BY <1>1, <2>1
    <3>2. CASE \E x \in DOMAIN FIXTURE_WORKFLOW : \E slot :
                 FIXTURE_WORKFLOW[i].inputs[field] = Link(x, slot)
      BY <3>1, <3>2, LinksAndOthers
    <3>3. CASE IsLiteral(FIXTURE_WORKFLOW[i].inputs[field])
      BY <3>1, <3>3 DEF IsLiteral
    <3> QED
      BY <3>2, <3>3, TemplateInput
  <2>2. CASE \E name \in SemanticNames : Target[name] = <<i, field>>
    <3>1. PICK name \in SemanticNames : Target[name] = <<i, field>>
      BY <2>2
    <3>2. Target[name][1] = i /\ Target[name][2] = field
      BY <3>1
    <3>3. IsLiteral(FIXTURE_WORKFLOW[i].inputs[field])
      BY <3>2, TargetsAreLiterals
    <3>4. IsLiteral(net[i].inputs[field])
      BY <1>2, <3>2, SemanticIsLiteral
    <3> QED
      BY <3>3, <3>4 DEF IsLiteral
  <2> QED
    BY <2>1, <2>2
<1>5. /\ net[119].inputs.vae_name = Txt(ModelFile["videoVae"])
      /\ net[120].inputs.vae_name = Txt(ModelFile["audioVae"])
  <2>1. \A name \in SemanticNames :
          Target[name] # <<119, "vae_name">> /\ Target[name] # <<120, "vae_name">>
    BY Targets DEF SemanticNames
  <2>2. /\ 119 \in DOMAIN FIXTURE_WORKFLOW /\ 120 \in DOMAIN FIXTURE_WORKFLOW
        /\ "vae_name" \in DOMAIN FIXTURE_WORKFLOW[119].inputs
        /\ "vae_name" \in DOMAIN FIXTURE_WORKFLOW[120].inputs
    BY TemplateIds, TemplateNodes
  <2>3. net[119].inputs["vae_name"] = FIXTURE_WORKFLOW[119].inputs["vae_name"]
    BY <1>1, <2>1, <2>2
  <2>4. net[120].inputs["vae_name"] = FIXTURE_WORKFLOW[120].inputs["vae_name"]
    BY <1>1, <2>1, <2>2
  <2> QED
    BY <2>3, <2>4, TemplateVaes
<1>6. Shaped(net)
  <2>1. 92 \in DOMAIN FIXTURE_WORKFLOW
    BY TemplateIds
  <2>2. net = [k \in DOMAIN FIXTURE_WORKFLOW |-> net[k]]
    BY <1>3, <2>1
  <2> QED
    BY <1>3, <1>4, <1>5, <2>2 DEF Shaped, VideoVaeNode, AudioVaeNode
<1> QED
  BY <1>2, <1>6 DEF net

(* round(24 d) is within half a frame of the duration. *)
LEMMA TemplateFramesFit ==
  ASSUME NEW h, DurationAllowed(h)
  PROVE  TemplateFrames(h) \in 24 .. 240 /\ 100 * TemplateFrames(h) - Fps * h \in -50 .. 50
<1>1. h \in Int /\ 100 <= h /\ h <= 1000
  BY DEF DurationAllowed
<1> DEFINE q == (24 * h + 50) \div 100
<1>2. q \in Int /\ 100 * q <= 24 * h + 50 /\ 24 * h + 50 < 100 * q + 100
  BY <1>1
<1>3. TemplateFrames(h) = q
  BY DEF TemplateFrames, Fps
<1> HIDE DEF q
<1> QED
  BY <1>1, <1>2, <1>3 DEF Fps

(* A compilation without an error makes what it was asked for. *)
LEMMA CompiledMakesInput ==
  ASSUME NEW input, NEW m \in Manifests, Compile(input, FIXTURE_WORKFLOW, m).error = "none"
  PROVE  MakesInput(Compile(input, FIXTURE_WORKFLOW, m).workflow, input)
<1> DEFINE net == Bound(FIXTURE_WORKFLOW, m, input)
           g == [shape |-> "object", nodes |-> net]
<1>1. Compile(input, FIXTURE_WORKFLOW, m).workflow = net
  BY DEF Compile
<1>2. /\ Shaped(net)
      /\ \A name \in SemanticNames :
           net[Target[name][1]].inputs[Target[name][2]] = SemanticValue(input, name)
  BY BoundIsShaped
<1> HIDE DEF net
<1>3. g.shape = "object" /\ g.nodes = net
  OBVIOUS
<1> HIDE DEF g
<1>4. Clean(g) /\ Nodes(g) = net
  BY <1>2, <1>3, ShapedIsClean
<1>5. \A f \in MadeFields : Makes(net, f, ApiValues(g)[f])
  BY <1>4, MadeIsRead DEF Makes
<1>6. /\ net[131].inputs.prompt = Txt(input.prompt) /\ net[131].inputs.width = Num(input.width)
      /\ net[131].inputs.height = Num(input.height)
      /\ net[131].inputs.length = Num(TemplateFrames(input.duration))
      /\ net[129].inputs.noise_seed = Num(input.seed) /\ net[124].inputs.steps = Num(input.steps)
  BY <1>2, Targets DEF SemanticNames, SemanticValue
<1>7. \A f \in DOMAIN LiteralInputs : ApiValues(g)[f] = Literal(LiteralsOf(net)[f])
  BY <1>2, <1>3, ShapedValues
<1>8. (\A n : Literal(Num(n)) = Num(n)) /\ (\A t : Literal(Txt(t)) = Txt(t))
  BY LinksAndOthers
<1>9. /\ ApiValues(g).prompt = Txt(input.prompt) /\ ApiValues(g).width = Num(input.width)
      /\ ApiValues(g).height = Num(input.height)
      /\ ApiValues(g).frames = Num(TemplateFrames(input.duration))
      /\ ApiValues(g).seed = Num(input.seed) /\ ApiValues(g).steps = Num(input.steps)
  <2>1. /\ LiteralsOf(net).prompt = Txt(input.prompt) /\ LiteralsOf(net).width = Num(input.width)
        /\ LiteralsOf(net).height = Num(input.height)
        /\ LiteralsOf(net).frames = Num(TemplateFrames(input.duration))
        /\ LiteralsOf(net).seed = Num(input.seed) /\ LiteralsOf(net).steps = Num(input.steps)
    BY <1>6 DEF LiteralsOf
  <2>2. {"prompt", "width", "height", "frames", "seed", "steps"} \subseteq DOMAIN LiteralInputs
    BY DEF LiteralInputs
  <2> QED
    BY <1>7, <1>8, <2>1, <2>2
<1>10. {"prompt", "width", "height", "frames", "seed", "steps"} \subseteq MadeFields
  BY DEF MadeFields, ComparedFields
<1>11. /\ Makes(net, "prompt", Txt(input.prompt)) /\ Makes(net, "seed", Num(input.seed))
       /\ Makes(net, "steps", Num(input.steps)) /\ Makes(net, "width", Num(input.width))
       /\ Makes(net, "height", Num(input.height))
       /\ Makes(net, "frames", Num(TemplateFrames(input.duration)))
  BY <1>5, <1>9, <1>10
<1>12. /\ TemplateFrames(input.duration) \in 24 .. 240
       /\ 100 * TemplateFrames(input.duration) - Fps * input.duration \in -50 .. 50
  BY ChecksPassed, TemplateFramesFit
<1>13. WiringIssues(net) = {}
  BY <1>2, ShapedWired
<1> QED
  BY <1>1, <1>11, <1>12, <1>13 DEF MakesInput

(* A compiled template makes what it was asked for, with every manifest     *)
(* that misses, repeats or misspells a binding: compileWorkflow.            *)
THEOREM TemplatesMakeTheirInput == Spec => []TemplateMakesInput
<1>1. Init => TemplateMakesInput
  BY DEF Init, TemplateMakesInput
<1>2. TemplateMakesInput /\ [Next]_vars => TemplateMakesInput'
  <2> SUFFICES ASSUME TemplateMakesInput, [Next]_vars PROVE TemplateMakesInput'
    OBVIOUS
  <2>1. CASE UNCHANGED template
    BY <2>1 DEF TemplateMakesInput
  <2>2. ASSUME NEW input \in TemplateInputs, NEW m \in Manifests, CompileTemplate(input, m)
        PROVE  TemplateMakesInput'
    <3>1. template' = [input |-> input, result |-> Compile(input, FIXTURE_WORKFLOW, m)]
      BY <2>2 DEF CompileTemplate
    <3>2. template'.input = input /\ template'.result = Compile(input, FIXTURE_WORKFLOW, m)
      BY <3>1
    <3> QED
      BY <3>2, CompiledMakesInput DEF TemplateMakesInput
  <2>3. CASE UNCHANGED vars
    BY <2>1, <2>3 DEF vars
  <2>4. CASE \/ \E e \in CanvasEdits : EditCanvas(e)
             \/ \E id \in Droppable : DropCanvasNode(id) \/ DropApiNode(id)
             \/ \E id \in DOMAIN ExtraNode : AddCanvasNode(Plain(id, ExtraNode[id].class))
             \/ \E n \in Range(PinnedEditor.nodes), part \in {"node", "named", "widgets"} :
                  BreakNode(n.id, part)
             \/ \E shape \in {"not an object", "too big"} : BreakCanvas(shape)
             \/ Export
             \/ \E e \in ApiEdits : SetInput(e)
             \/ \E id \in DOMAIN ExtraNode : PutApiNode(id, ExtraNode[id])
    <3>1. EditGraphs
      BY <2>4 DEF EditCanvas, DropCanvasNode, DropApiNode, AddCanvasNode, BreakNode, BreakCanvas,
                  Export, SetInput, PutApiNode
    <3> QED
      BY <2>1, <3>1 DEF EditGraphs
  <2>5. CASE \E answer \in Executors : ExecutorChanges(answer)
    BY <2>1, <2>5 DEF ExecutorChanges
  <2>6. CASE CreateRevision \/ QueueAttempt \/ WorkerDies
    BY <2>1, <2>6 DEF CreateRevision, QueueAttempt, WorkerDies
  <2>7. CASE \E v \in Validator : StartValidation(v) \/ FinishValidation(v)
    BY <2>1, <2>7 DEF StartValidation, FinishValidation
  <2>8. CASE Finish
    BY <2>1, <2>8 DEF Finish, FinishSuccess, Advance
  <2>9. CASE Claim \/ ReadRevision \/ RecordIntent \/ LookUp \/ Refuse
    BY <2>1, <2>9 DEF Claim, ReadRevision, RecordIntent, LookUp, Refuse, Advance
  <2> QED
    BY <2>2, <2>3, <2>4, <2>5, <2>6, <2>7, <2>8, <2>9 DEF Next
<1> QED
  BY <1>1, <1>2, PTL DEF Spec

-----------------------------------------------------------------------------
(* The pinned canvas: its nodes by their positions                          *)

LEMMA ListsAreSeqs ==
  ASSUME NEW S, NEW n \in Nat, NEW p \in [1 .. n -> S]
  PROVE  p \in Seq(S)
OBVIOUS

LEMMA Three ==
  ASSUME NEW a, NEW b, NEW c
  PROVE  <<a, b, c>> \in Seq({a, b, c}) /\ Len(<<a, b, c>>) = 3
OBVIOUS

LEMMA Appended ==
  ASSUME NEW S, NEW s \in Seq(S), NEW t \in Seq(S), NEW m, NEW n, m = Len(s), n = Len(t)
  PROVE  /\ DOMAIN (s \o t) = 1 .. (m + n)
         /\ \A i \in 1 .. m : (s \o t)[i] = s[i]
         /\ \A i \in 1 .. n : (s \o t)[m + i] = t[i]
OBVIOUS

(* The nodes of the canvas and those of its subgraphs, one list after the  *)
(* other.                                                                  *)
LengthsFit(s, t) == Len(s) = 3 /\ Len(t) = 14
IsJoined(u, s, t) ==
  /\ DOMAIN u = 1 .. 17
  /\ \A i \in 1 .. 3 : u[i] = s[i]
  /\ \A i \in 4 .. 17 : u[i] = t[i - 3]

LEMMA Joined ==
  ASSUME NEW S, NEW s \in Seq(S), NEW t \in Seq(S)
  PROVE  LengthsFit(s, t) => IsJoined(s \o t, s, t)
<1>1. PICK m, n : m = Len(s) /\ n = Len(t)
  BY Zenon
<1> DEFINE u == s \o t
<1>2. DOMAIN u = 1 .. (m + n) /\ (\A i \in 1 .. m : u[i] = s[i])
        /\ \A i \in 1 .. n : u[m + i] = t[i]
  BY <1>1, Appended
<1> HIDE DEF u
<1>3. HAVE LengthsFit(s, t)
<1>4. m = 3 /\ n = 14
  BY <1>1, <1>3 DEF LengthsFit
<1>5. m + n = 17
  BY <1>4
<1>6. DOMAIN u = 1 .. 17 /\ \A i \in 1 .. 3 : u[i] = s[i]
  BY <1>2, <1>4
<1>7. ASSUME NEW i \in 4 .. 17 PROVE u[i] = t[i - 3]
  <2>1. i - 3 \in 1 .. n /\ m + (i - 3) = i
    BY <1>4
  <2> QED
    BY <1>2, <2>1, Zenon
<1> QED
  BY <1>6, <1>7, Zenon DEF u, IsJoined

LEMMA PinnedGraph ==
  /\ DOMAIN AllNodes(PinnedEditor) = 1 .. 17
  /\ \A i \in 1 .. 3 : AllNodes(PinnedEditor)[i] = PinnedEditor.nodes[i]
  /\ \A i \in 4 .. 17 : AllNodes(PinnedEditor)[i] = PinnedEditor.nested[i - 3]
<1> DEFINE s == PinnedEditor.nodes
<1> DEFINE t == PinnedEditor.nested
<1>1. (\E A : s \in Seq(A)) /\ Len(s) = 3
  <2>1. PICK a, b, c : s = <<a, b, c>>
    BY DEF PinnedEditor
  <2> HIDE DEF s
  <2> QED
    BY <2>1, Three
<1>2. (\E B : t \in Seq(B)) /\ Len(t) = 14
  <2>1. t = PinnedNested
    BY DEF PinnedEditor
  <2>2. \E B : PinnedNested \in Seq(B)
    <3>1. DOMAIN PinnedNested = 1 .. 14
      BY DEF PinnedNested
    <3>2. PinnedNested = [i \in 1 .. 14 |-> PinnedNested[i]]
      BY DEF PinnedNested
    <3>3. PinnedNested \in [1 .. 14 -> Range(PinnedNested)]
      BY <3>1, <3>2 DEF Range
    <3> HIDE DEF PinnedNested
    <3>4. ASSUME NEW B, NEW p \in [1 .. 14 -> B] PROVE p \in Seq(B)
      <4>1. PICK n \in Nat : n = 14
        OBVIOUS
      <4>2. p \in [1 .. n -> B]
        BY <4>1
      <4> QED
        BY <4>2, ListsAreSeqs
    <3> QED
      BY <3>3, <3>4, Zenon
  <2>3. Len(PinnedNested) = 14
    BY DEF PinnedNested
  <2> QED
    BY <2>1, <2>2, <2>3, Zenon
<1>4. AllNodes(PinnedEditor) = s \o t
  BY DEF AllNodes
<1> HIDE DEF s, t
<1>5. PICK A, B : s \in Seq(A) /\ t \in Seq(B)
  BY <1>1, <1>2, Zenon
<1>6. PICK C : s \in Seq(C) /\ t \in Seq(C)
  <2>1. s \in Seq(A \cup B) /\ t \in Seq(A \cup B)
    BY <1>5
  <2> QED
    BY <2>1, Zenon
<1>7. LengthsFit(s, t) => IsJoined(s \o t, s, t)
  BY <1>6, Joined, Zenon
<1> QED
  BY <1>1, <1>2, <1>4, <1>7, Zenon DEF s, t, LengthsFit, IsJoined

(* The identifiers and the types.  *)
IsAt(i, id, type) ==
  AllNodes(PinnedEditor)[i].id = id /\ AllNodes(PinnedEditor)[i].type = type

LEMMA NodeFields ==
  ASSUME NEW id, NEW type, NEW named, NEW widgets
  PROVE  /\ EditorNode(id, type, named, widgets).id = id
         /\ EditorNode(id, type, named, widgets).type = type
         /\ EditorNode(id, type, named, widgets).named = named
         /\ EditorNode(id, type, named, widgets).widgets = widgets
         /\ Plain(id, type).id = id /\ Plain(id, type).type = type
BY DEF EditorNode, Plain

LEMMA NestedAt ==
  ASSUME NEW i \in 4 .. 17
  PROVE  AllNodes(PinnedEditor)[i] = PinnedNested[i - 3]
<1>1. PinnedEditor.nested = PinnedNested
  BY DEF PinnedEditor
<1> QED
  BY <1>1, PinnedGraph

LEMMA PinnedNodes ==
  /\ IsAt(1, 92, "SaveVideo")
  /\ IsAt(2, 116, "MarkdownNote")
  /\ IsAt(3, 140, Subgraph)
  /\ IsAt(4, 119, "VAELoader")
  /\ IsAt(5, 121, "VAEDecodeAudio")
  /\ IsAt(6, 122, "VAEDecode")
  /\ IsAt(7, 123, "KSamplerSelect")
  /\ IsAt(8, 124, "BasicScheduler")
  /\ IsAt(9, 125, "SamplerCustomAdvanced")
  /\ IsAt(10, 126, "BasicGuider")
  /\ IsAt(11, 127, "UNETLoader")
  /\ IsAt(12, 128, "CLIPLoader")
  /\ IsAt(13, 129, "RandomNoise")
  /\ IsAt(14, 130, "CreateVideo")
  /\ IsAt(15, 131, "MiniMaxH3ImageToVideo")
  /\ IsAt(16, 137, "PrimitiveInt")
  /\ IsAt(17, 138, "PrimitiveInt")
<1>1. IsAt(1, 92, "SaveVideo")
  <2>1. AllNodes(PinnedEditor)[1] = PinnedEditor.nodes[1]
    BY PinnedGraph
  <2>2. PinnedEditor.nodes[1].id = 92 /\ PinnedEditor.nodes[1].type = "SaveVideo"
    BY NodeFields DEF PinnedEditor
  <2> QED
    BY <2>1, <2>2 DEF IsAt
<1>2. IsAt(2, 116, "MarkdownNote")
  <2>1. AllNodes(PinnedEditor)[2] = PinnedEditor.nodes[2]
    BY PinnedGraph
  <2>2. PinnedEditor.nodes[2].id = 116 /\ PinnedEditor.nodes[2].type = "MarkdownNote"
    BY NodeFields DEF PinnedEditor
  <2> QED
    BY <2>1, <2>2 DEF IsAt
<1>3. IsAt(3, 140, Subgraph)
  <2>1. AllNodes(PinnedEditor)[3] = PinnedEditor.nodes[3]
    BY PinnedGraph
  <2>2. PinnedEditor.nodes[3].id = 140 /\ PinnedEditor.nodes[3].type = Subgraph
    <3>1. PinnedEditor.nodes[3] = PinnedSettings
      BY DEF PinnedEditor
    <3>2. PinnedSettings.id = 140 /\ PinnedSettings.type = Subgraph
      BY DEF PinnedSettings, EditorNode
    <3> QED
      BY <3>1, <3>2
  <2> QED
    BY <2>1, <2>2 DEF IsAt
<1>4. IsAt(4, 119, "VAELoader")
  <2>1. AllNodes(PinnedEditor)[4] = PinnedNested[1]
    BY NestedAt
  <2>2. PinnedNested[1].id = 119 /\ PinnedNested[1].type = "VAELoader"
    BY NodeFields DEF PinnedNested
  <2> QED
    BY <2>1, <2>2 DEF IsAt
<1>5. IsAt(5, 121, "VAEDecodeAudio")
  <2>1. AllNodes(PinnedEditor)[5] = PinnedNested[2]
    BY NestedAt
  <2>2. PinnedNested[2].id = 121 /\ PinnedNested[2].type = "VAEDecodeAudio"
    BY NodeFields DEF PinnedNested
  <2> QED
    BY <2>1, <2>2 DEF IsAt
<1>6. IsAt(6, 122, "VAEDecode")
  <2>1. AllNodes(PinnedEditor)[6] = PinnedNested[3]
    BY NestedAt
  <2>2. PinnedNested[3].id = 122 /\ PinnedNested[3].type = "VAEDecode"
    BY NodeFields DEF PinnedNested
  <2> QED
    BY <2>1, <2>2 DEF IsAt
<1>7. IsAt(7, 123, "KSamplerSelect")
  <2>1. AllNodes(PinnedEditor)[7] = PinnedNested[4]
    BY NestedAt
  <2>2. PinnedNested[4].id = 123 /\ PinnedNested[4].type = "KSamplerSelect"
    BY NodeFields DEF PinnedNested
  <2> QED
    BY <2>1, <2>2 DEF IsAt
<1>8. IsAt(8, 124, "BasicScheduler")
  <2>1. AllNodes(PinnedEditor)[8] = PinnedNested[5]
    BY NestedAt
  <2>2. PinnedNested[5].id = 124 /\ PinnedNested[5].type = "BasicScheduler"
    BY NodeFields DEF PinnedNested
  <2> QED
    BY <2>1, <2>2 DEF IsAt
<1>9. IsAt(9, 125, "SamplerCustomAdvanced")
  <2>1. AllNodes(PinnedEditor)[9] = PinnedNested[6]
    BY NestedAt
  <2>2. PinnedNested[6].id = 125 /\ PinnedNested[6].type = "SamplerCustomAdvanced"
    BY NodeFields DEF PinnedNested
  <2> QED
    BY <2>1, <2>2 DEF IsAt
<1>10. IsAt(10, 126, "BasicGuider")
  <2>1. AllNodes(PinnedEditor)[10] = PinnedNested[7]
    BY NestedAt
  <2>2. PinnedNested[7].id = 126 /\ PinnedNested[7].type = "BasicGuider"
    BY NodeFields DEF PinnedNested
  <2> QED
    BY <2>1, <2>2 DEF IsAt
<1>11. IsAt(11, 127, "UNETLoader")
  <2>1. AllNodes(PinnedEditor)[11] = PinnedNested[8]
    BY NestedAt
  <2>2. PinnedNested[8].id = 127 /\ PinnedNested[8].type = "UNETLoader"
    BY NodeFields DEF PinnedNested
  <2> QED
    BY <2>1, <2>2 DEF IsAt
<1>12. IsAt(12, 128, "CLIPLoader")
  <2>1. AllNodes(PinnedEditor)[12] = PinnedNested[9]
    BY NestedAt
  <2>2. PinnedNested[9].id = 128 /\ PinnedNested[9].type = "CLIPLoader"
    BY NodeFields DEF PinnedNested
  <2> QED
    BY <2>1, <2>2 DEF IsAt
<1>13. IsAt(13, 129, "RandomNoise")
  <2>1. AllNodes(PinnedEditor)[13] = PinnedNested[10]
    BY NestedAt
  <2>2. PinnedNested[10].id = 129 /\ PinnedNested[10].type = "RandomNoise"
    BY NodeFields DEF PinnedNested
  <2> QED
    BY <2>1, <2>2 DEF IsAt
<1>14. IsAt(14, 130, "CreateVideo")
  <2>1. AllNodes(PinnedEditor)[14] = PinnedNested[11]
    BY NestedAt
  <2>2. PinnedNested[11].id = 130 /\ PinnedNested[11].type = "CreateVideo"
    BY NodeFields DEF PinnedNested
  <2> QED
    BY <2>1, <2>2 DEF IsAt
<1>15. IsAt(15, 131, "MiniMaxH3ImageToVideo")
  <2>1. AllNodes(PinnedEditor)[15] = PinnedNested[12]
    BY NestedAt
  <2>2. PinnedNested[12].id = 131 /\ PinnedNested[12].type = "MiniMaxH3ImageToVideo"
    BY DEF PinnedNested, EditorNode
  <2> QED
    BY <2>1, <2>2 DEF IsAt
<1>16. IsAt(16, 137, "PrimitiveInt")
  <2>1. AllNodes(PinnedEditor)[16] = PinnedNested[13]
    BY NestedAt
  <2>2. PinnedNested[13].id = 137 /\ PinnedNested[13].type = "PrimitiveInt"
    BY NodeFields DEF PinnedNested
  <2> QED
    BY <2>1, <2>2 DEF IsAt
<1>17. IsAt(17, 138, "PrimitiveInt")
  <2>1. AllNodes(PinnedEditor)[17] = PinnedNested[14]
    BY NestedAt
  <2>2. PinnedNested[14].id = 138 /\ PinnedNested[14].type = "PrimitiveInt"
    BY NodeFields DEF PinnedNested
  <2> QED
    BY <2>1, <2>2 DEF IsAt
<1> QED
  BY <1>1, <1>2, <1>3, <1>4, <1>5, <1>6, <1>7, <1>8, <1>9, <1>10, <1>11, <1>12, <1>13, <1>14, <1>15, <1>16, <1>17

LEMMA PinnedTypes ==
  /\ \A i \in 1 .. 17 : AllNodes(PinnedEditor)[i].type \in AllowedEditorTypes \ {""}
  /\ \A i \in 1 .. 17 : AllNodes(PinnedEditor)[i].type = Subgraph => i = 3
  /\ \A i \in 1 .. 17 : AllNodes(PinnedEditor)[i].type = "SaveVideo" => i = 1
  /\ \A i \in 1 .. 17 : AllNodes(PinnedEditor)[i].type = "CreateVideo" => i = 14
  /\ \A i \in 1 .. 17 : AllNodes(PinnedEditor)[i].type = "PrimitiveInt" => i \in {16, 17}
<1> DEFINE p == AllNodes(PinnedEditor)
<1> HIDE DEF p
<1>1. /\ p[1].type = "SaveVideo" /\ p[2].type = "MarkdownNote" /\ p[3].type = Subgraph
      /\ p[4].type = "VAELoader"
      /\ p[5].type = "VAEDecodeAudio"
      /\ p[6].type = "VAEDecode"
      /\ p[7].type = "KSamplerSelect"
      /\ p[8].type = "BasicScheduler"
      /\ p[9].type = "SamplerCustomAdvanced"
      /\ p[10].type = "BasicGuider"
      /\ p[11].type = "UNETLoader"
      /\ p[12].type = "CLIPLoader"
      /\ p[13].type = "RandomNoise"
      /\ p[14].type = "CreateVideo"
      /\ p[15].type = "MiniMaxH3ImageToVideo"
      /\ p[16].type = "PrimitiveInt"
      /\ p[17].type = "PrimitiveInt"
  BY PinnedNodes DEF IsAt, p
<1>2. \A i \in 1 .. 17 : p[i].type \in AllowedEditorTypes \ {""}
  <2> SUFFICES ASSUME NEW i \in 1 .. 17 PROVE p[i].type \in AllowedEditorTypes \ {""}
    OBVIOUS
  <2>1. CASE i = 1
    BY <1>1, <2>1 DEF AllowedEditorTypes, AllowedApiClasses, RequiredClasses, Subgraph
  <2>2. CASE i = 2
    BY <1>1, <2>2 DEF AllowedEditorTypes, AllowedApiClasses, RequiredClasses, Subgraph
  <2>3. CASE i = 3
    BY <1>1, <2>3 DEF AllowedEditorTypes, AllowedApiClasses, RequiredClasses, Subgraph
  <2>4. CASE i = 4
    BY <1>1, <2>4 DEF AllowedEditorTypes, AllowedApiClasses, RequiredClasses, Subgraph
  <2>5. CASE i = 5
    BY <1>1, <2>5 DEF AllowedEditorTypes, AllowedApiClasses, RequiredClasses, Subgraph
  <2>6. CASE i = 6
    BY <1>1, <2>6 DEF AllowedEditorTypes, AllowedApiClasses, RequiredClasses, Subgraph
  <2>7. CASE i = 7
    BY <1>1, <2>7 DEF AllowedEditorTypes, AllowedApiClasses, RequiredClasses, Subgraph
  <2>8. CASE i = 8
    BY <1>1, <2>8 DEF AllowedEditorTypes, AllowedApiClasses, RequiredClasses, Subgraph
  <2>9. CASE i = 9
    BY <1>1, <2>9 DEF AllowedEditorTypes, AllowedApiClasses, RequiredClasses, Subgraph
  <2>10. CASE i = 10
    BY <1>1, <2>10 DEF AllowedEditorTypes, AllowedApiClasses, RequiredClasses, Subgraph
  <2>11. CASE i = 11
    BY <1>1, <2>11 DEF AllowedEditorTypes, AllowedApiClasses, RequiredClasses, Subgraph
  <2>12. CASE i = 12
    BY <1>1, <2>12 DEF AllowedEditorTypes, AllowedApiClasses, RequiredClasses, Subgraph
  <2>13. CASE i = 13
    BY <1>1, <2>13 DEF AllowedEditorTypes, AllowedApiClasses, RequiredClasses, Subgraph
  <2>14. CASE i = 14
    BY <1>1, <2>14 DEF AllowedEditorTypes, AllowedApiClasses, RequiredClasses, Subgraph
  <2>15. CASE i = 15
    BY <1>1, <2>15 DEF AllowedEditorTypes, AllowedApiClasses, RequiredClasses, Subgraph
  <2>16. CASE i = 16
    BY <1>1, <2>16 DEF AllowedEditorTypes, AllowedApiClasses, RequiredClasses, Subgraph
  <2>17. CASE i = 17
    BY <1>1, <2>17 DEF AllowedEditorTypes, AllowedApiClasses, RequiredClasses, Subgraph
  <2>18. \/ i = 1 \/ i = 2 \/ i = 3 \/ i = 4 \/ i = 5 \/ i = 6 \/ i = 7 \/ i = 8 \/ i = 9
         \/ i = 10 \/ i = 11 \/ i = 12 \/ i = 13 \/ i = 14 \/ i = 15 \/ i = 16 \/ i = 17
    OBVIOUS
  <2> QED
    BY <2>1, <2>2, <2>3, <2>4, <2>5, <2>6, <2>7, <2>8, <2>9, <2>10, <2>11, <2>12, <2>13,
       <2>14, <2>15, <2>16, <2>17, <2>18, Zenon
<1>3. \A i \in 1 .. 17 : p[i].type = Subgraph => i = 3
  BY <1>1 DEF Subgraph
<1>4. \A i \in 1 .. 17 : p[i].type = "SaveVideo" => i = 1
  BY <1>1 DEF Subgraph
<1>5. \A i \in 1 .. 17 : p[i].type = "CreateVideo" => i = 14
  BY <1>1 DEF Subgraph
<1>6. \A i \in 1 .. 17 : p[i].type = "PrimitiveInt" => i \in {16, 17}
  BY <1>1 DEF Subgraph
<1> QED
  BY <1>2, <1>3, <1>4, <1>5, <1>6 DEF p

LEMMA PinnedIds ==
  \A i, j \in 1 .. 17 : AllNodes(PinnedEditor)[i].id = AllNodes(PinnedEditor)[j].id => i = j
<1> DEFINE p == AllNodes(PinnedEditor)
<1> HIDE DEF p
<1>1. /\ p[1].id = 92 /\ p[2].id = 116 /\ p[3].id = 140 /\ p[4].id = 119 /\ p[5].id = 121
      /\ p[6].id = 122 /\ p[7].id = 123 /\ p[8].id = 124 /\ p[9].id = 125 /\ p[10].id = 126
      /\ p[11].id = 127 /\ p[12].id = 128 /\ p[13].id = 129 /\ p[14].id = 130
      /\ p[15].id = 131 /\ p[16].id = 137 /\ p[17].id = 138
  BY PinnedNodes DEF IsAt, p
<1> SUFFICES ASSUME NEW i \in 1 .. 17, NEW j \in 1 .. 17, p[i].id = p[j].id PROVE i = j
  BY DEF p
<1>2. CASE i = 1
  BY <1>1, <1>2
<1>3. CASE i = 2
  BY <1>1, <1>3
<1>4. CASE i = 3
  BY <1>1, <1>4
<1>5. CASE i = 4
  BY <1>1, <1>5
<1>6. CASE i = 5
  BY <1>1, <1>6
<1>7. CASE i = 6
  BY <1>1, <1>7
<1>8. CASE i = 7
  BY <1>1, <1>8
<1>9. CASE i = 8
  BY <1>1, <1>9
<1>10. CASE i = 9
  BY <1>1, <1>10
<1>11. CASE i = 10
  BY <1>1, <1>11
<1>12. CASE i = 11
  BY <1>1, <1>12
<1>13. CASE i = 12
  BY <1>1, <1>13
<1>14. CASE i = 13
  BY <1>1, <1>14
<1>15. CASE i = 14
  BY <1>1, <1>15
<1>16. CASE i = 15
  BY <1>1, <1>16
<1>17. CASE i = 16
  BY <1>1, <1>17
<1>18. CASE i = 17
  BY <1>1, <1>18
<1> QED
  BY <1>2, <1>3, <1>4, <1>5, <1>6, <1>7, <1>8, <1>9, <1>10, <1>11, <1>12, <1>13, <1>14, <1>15, <1>16, <1>17, <1>18

(* The widgets that are read: their keys, and how many places there are.  *)
SettingKeys == {"prompt", "width", "height", "value_1", "noise_seed", "unet_name", "clip_name",
                "vae_name", "vae_name_1", "value"}

LEMMA PinnedKeys ==
  LET p == AllNodes(PinnedEditor) IN
  /\ "filename_prefix" \in DOMAIN p[1].named /\ DOMAIN p[1].widgets = 1 .. 1
  /\ SettingKeys \subseteq DOMAIN p[3].named /\ DOMAIN p[3].widgets = 1 .. 10
  /\ "fps" \in DOMAIN p[14].named /\ DOMAIN p[14].widgets = 1 .. 1
  /\ "value" \in DOMAIN p[16].named /\ DOMAIN p[16].widgets = 1 .. 1
  /\ "value" \in DOMAIN p[17].named /\ DOMAIN p[17].widgets = 1 .. 1
<1> DEFINE p == AllNodes(PinnedEditor)
<1>1. "filename_prefix" \in DOMAIN p[1].named /\ DOMAIN p[1].widgets = 1 .. 1
  <2>1. p[1] = PinnedEditor.nodes[1]
    BY PinnedGraph
  <2>2. /\ "filename_prefix" \in DOMAIN PinnedEditor.nodes[1].named
        /\ DOMAIN PinnedEditor.nodes[1].widgets = 1 .. 1
    BY DEF PinnedEditor, EditorNode
  <2> QED
    BY <2>1, <2>2
<1>2. SettingKeys \subseteq DOMAIN p[3].named /\ DOMAIN p[3].widgets = 1 .. 10
  <2>1. p[3] = PinnedSettings
    <3>1. PinnedEditor.nodes[3] = PinnedSettings
      BY DEF PinnedEditor
    <3> QED
      BY <3>1, PinnedGraph
  <2>2. SettingKeys \subseteq DOMAIN PinnedSettings.named
    BY DEF PinnedSettings, EditorNode, SettingKeys
  <2>3. DOMAIN PinnedSettings.widgets = 1 .. 10
    BY DEF PinnedSettings, EditorNode
  <2> QED
    BY <2>1, <2>2, <2>3
<1>3. "fps" \in DOMAIN p[14].named /\ DOMAIN p[14].widgets = 1 .. 1
  <2>1. p[14] = PinnedNested[11]
    BY NestedAt
  <2>2. /\ "fps" \in DOMAIN PinnedNested[11].named
        /\ DOMAIN PinnedNested[11].widgets = 1 .. 1
    BY DEF PinnedNested, EditorNode
  <2> QED
    BY <2>1, <2>2
<1>4. "value" \in DOMAIN p[16].named /\ DOMAIN p[16].widgets = 1 .. 1
  <2>1. p[16] = PinnedNested[13]
    BY NestedAt
  <2>2. /\ "value" \in DOMAIN PinnedNested[13].named
        /\ DOMAIN PinnedNested[13].widgets = 1 .. 1
    BY DEF PinnedNested, EditorNode
  <2> QED
    BY <2>1, <2>2
<1>5. "value" \in DOMAIN p[17].named /\ DOMAIN p[17].widgets = 1 .. 1
  <2>1. p[17] = PinnedNested[14]
    BY NestedAt
  <2>2. /\ "value" \in DOMAIN PinnedNested[14].named
        /\ DOMAIN PinnedNested[14].widgets = 1 .. 1
    BY DEF PinnedNested, EditorNode
  <2> QED
    BY <2>1, <2>2
<1> QED
  BY <1>1, <1>2, <1>3, <1>4, <1>5

-----------------------------------------------------------------------------
(* A canvas within the profile: what is kept and read of it                *)

LEMMA Held ==
  ASSUME WithinProfile
  PROVE  /\ EditorReads(editor) /\ DOMAIN AllNodes(editor) = 1 .. 17
         /\ \A i \in 1 .. 17 : HoldsWidgets(AllNodes(editor)[i], AllNodes(PinnedEditor)[i])
BY PinnedGraph, Zenon DEF WithinProfile

LEMMA HeldParts ==
  ASSUME NEW n, NEW m, HoldsWidgets(n, m)
  PROVE  /\ n.id = m.id /\ n.type = m.type /\ n.broken = {}
         /\ DOMAIN m.named \subseteq DOMAIN Named(n) /\ DOMAIN Positional(n) = DOMAIN m.widgets
         /\ Named(n) = n.named /\ Positional(n) = n.widgets
         /\ \A i \in DOMAIN m.widgets : Defined(n.widgets[i])
BY DEF HoldsWidgets, Named, Positional

LEMMA HeldParses ==
  ASSUME WithinProfile, NEW i \in 1 .. 17
  PROVE  NodeParses(AllNodes(editor)[i]) /\ AllNodes(editor)[i].type \in AllowedEditorTypes
<1>1. AllNodes(editor)[i].broken = {}
        /\ AllNodes(editor)[i].type = AllNodes(PinnedEditor)[i].type
  BY Held, HeldParts
<1> QED
  BY <1>1, PinnedTypes DEF NodeParses

LEMMA HeldOnce ==
  ASSUME WithinProfile, NEW i \in 1 .. 17, NEW j \in 1 .. 17,
         AllNodes(editor)[i].id = AllNodes(editor)[j].id
  PROVE  i = j
<1>1. AllNodes(editor)[i].id = AllNodes(PinnedEditor)[i].id
        /\ AllNodes(editor)[j].id = AllNodes(PinnedEditor)[j].id
  BY Held, HeldParts
<1> QED
  BY <1>1, PinnedIds

LEMMA KeptNodes ==
  ASSUME WithinProfile
  PROVE  /\ DOMAIN Kept(editor) = 1 .. 17
         /\ \A i \in 1 .. 17 : Kept(editor)[i] = AllNodes(editor)[i]
<1> DEFINE all == AllNodes(editor)
<1> DEFINE Seen(i) == {j \in DOMAIN all : j < i /\ NodeParses(all[j]) /\ all[j].id = all[i].id}
<1>1. Kept(editor) = Restrict(all, {i \in DOMAIN all : NodeParses(all[i]) /\ Seen(i) = {}})
  BY Held DEF Kept
<1>2. DOMAIN all = 1 .. 17
  BY Held
<1>3. ASSUME NEW i \in DOMAIN all PROVE NodeParses(all[i]) /\ Seen(i) = {}
  BY <1>2, <1>3, HeldParses, HeldOnce
<1>4. {i \in DOMAIN all : NodeParses(all[i]) /\ Seen(i) = {}} = 1 .. 17
  BY <1>2, <1>3
<1> HIDE DEF all, Seen
<1>5. Kept(editor) = [i \in 1 .. 17 |-> all[i]]
  BY <1>1, <1>4 DEF Restrict
<1> QED
  BY <1>5 DEF all

LEMMA HeldReads ==
  ASSUME WithinProfile
  PROVE  ParseEditorIssues(editor) = {}
<1> DEFINE g == AllNodes(editor)
<1> DEFINE parsed == {n \in Range(g) : NodeParses(n)}
<1> DEFINE Twice(n) == Cardinality({i \in DOMAIN g : g[i].id = n.id /\ NodeParses(g[i])}) > 1
<1>1. DOMAIN g = 1 .. 17 /\ EditorReads(editor)
  BY Held
<1>2. parsed = Range(g)
  BY <1>1, HeldParses DEF Range
<1>3. ASSUME NEW n \in Range(g)
      PROVE  ~ Twice(n) /\ n.broken = {} /\ n.type \in AllowedEditorTypes
  <2>1. PICK k \in 1 .. 17 : n = g[k]
    BY <1>1 DEF Range
  <2>2. {i \in DOMAIN g : g[i].id = n.id /\ NodeParses(g[i])} = {k}
    BY <1>1, <2>1, HeldParses, HeldOnce
  <2>3. Cardinality({k}) = 1
    BY FS_Singleton
  <2>4. n.broken = {} /\ n.type \in AllowedEditorTypes
    BY <2>1, Held, HeldParts, HeldParses
  <2> QED
    BY <2>2, <2>3, <2>4
<1> DEFINE issues == Unless(parsed = Range(g), "GRAPH_SCHEMA_INVALID", <<"editor", "a node">>)
          \cup {Issue("GRAPH_SCHEMA_INVALID", <<"duplicated", n.id>>) : n \in {k \in parsed : Twice(k)}}
          \cup UNION {{Issue("GRAPH_SCHEMA_INVALID", <<n.type, part>>) : part \in n.broken} :
                        n \in parsed}
          \cup {Issue("UNSAFE_NODE", <<"editor", n.type>>) :
                  n \in {k \in parsed : k.type \notin AllowedEditorTypes}}
<1>4. ParseEditorIssues(editor) = issues
  BY <1>1 DEF ParseEditorIssues
<1> HIDE DEF g, Twice
<1>5. {k \in parsed : Twice(k)} = {} /\ {k \in parsed : k.type \notin AllowedEditorTypes} = {}
  BY <1>2, <1>3
<1>6. Unless(parsed = Range(g), "GRAPH_SCHEMA_INVALID", <<"editor", "a node">>) = {}
  BY <1>2 DEF Unless
<1>7. UNION {{Issue("GRAPH_SCHEMA_INVALID", <<n.type, part>>) : part \in n.broken} :
               n \in parsed} = {}
  BY <1>2, <1>3
<1> HIDE DEF parsed
<1> QED
  BY <1>4, <1>5, <1>6, <1>7

LEMMA HeldClasses ==
  ASSUME WithinProfile
  PROVE  ValidateEditorNodeClasses(Kept(editor)) = {}
<1> DEFINE K == Kept(editor)
<1>1. ASSUME NEW i, NEW id, NEW c, i \in 1 .. 17, IsAt(i, id, c)
      PROVE  c \in {K[j].type : j \in DOMAIN K}
  <2>1. K[i].type = c /\ i \in DOMAIN K
    BY <1>1, KeptNodes, Held, HeldParts DEF IsAt
  <2> QED
    BY <2>1
<1> HIDE DEF K
<1> DEFINE types == {K[j].type : j \in DOMAIN K}
<1>2. "SaveVideo" \in types
  BY <1>1, PinnedNodes
<1>3. "VAELoader" \in types
  BY <1>1, PinnedNodes
<1>4. "VAEDecodeAudio" \in types
  BY <1>1, PinnedNodes
<1>5. "VAEDecode" \in types
  BY <1>1, PinnedNodes
<1>6. "KSamplerSelect" \in types
  BY <1>1, PinnedNodes
<1>7. "BasicScheduler" \in types
  BY <1>1, PinnedNodes
<1>8. "SamplerCustomAdvanced" \in types
  BY <1>1, PinnedNodes
<1>9. "BasicGuider" \in types
  BY <1>1, PinnedNodes
<1>10. "UNETLoader" \in types
  BY <1>1, PinnedNodes
<1>11. "CLIPLoader" \in types
  BY <1>1, PinnedNodes
<1>12. "RandomNoise" \in types
  BY <1>1, PinnedNodes
<1>13. "CreateVideo" \in types
  BY <1>1, PinnedNodes
<1>14. "MiniMaxH3ImageToVideo" \in types
  BY <1>1, PinnedNodes
<1> HIDE DEF types
<1>15. RequiredClasses \subseteq types
  BY <1>2, <1>3, <1>4, <1>5, <1>6, <1>7, <1>8, <1>9, <1>10, <1>11, <1>12, <1>13, <1>14 DEF RequiredClasses
<1> QED
  BY <1>15 DEF types, K, ValidateEditorNodeClasses

LEMMA HeldPlaces ==
  ASSUME WithinProfile
  PROVE  /\ SettingsNode(Kept(editor)) = <<AllNodes(editor)[3]>>
         /\ OutputNode(Kept(editor)) = <<AllNodes(editor)[1]>>
         /\ VideoNode(Kept(editor)) = <<AllNodes(editor)[14]>>
         /\ StepNodes(Kept(editor)) = [i \in {16, 17} |-> AllNodes(editor)[i]]
<1> DEFINE K == Kept(editor)
<1>1. DOMAIN K = 1 .. 17 /\ \A i \in 1 .. 17 : K[i] = AllNodes(editor)[i]
  BY KeptNodes
<1>2. \A i \in 1 .. 17 : K[i].type = AllNodes(PinnedEditor)[i].type
  BY <1>1, Held, HeldParts
<1>3. /\ K[3].type = Subgraph /\ K[1].type = "SaveVideo" /\ K[14].type = "CreateVideo"
      /\ K[16].type = "PrimitiveInt" /\ K[17].type = "PrimitiveInt"
  BY <1>2, PinnedNodes DEF IsAt
<1>4. "prompt" \in DOMAIN Named(K[3])
  <2>1. SettingKeys \subseteq DOMAIN Named(K[3])
    BY <1>1, Held, HeldParts, PinnedKeys
  <2> QED
    BY <2>1 DEF SettingKeys
<1>5. \A i \in 1 .. 17 : K[i].type = Subgraph => i = 3
  BY <1>2, PinnedTypes
<1>6. \A i \in 1 .. 17 : K[i].type = "SaveVideo" => i = 1
  BY <1>2, PinnedTypes
<1>7. \A i \in 1 .. 17 : K[i].type = "CreateVideo" => i = 14
  BY <1>2, PinnedTypes
<1>8. \A i \in 1 .. 17 : K[i].type = "PrimitiveInt" => i \in {16, 17}
  BY <1>2, PinnedTypes
<1> HIDE DEF K
<1>9. {i \in DOMAIN K : K[i].type = Subgraph /\ "prompt" \in DOMAIN Named(K[i])} = {3}
  BY <1>1, <1>3, <1>4, <1>5
<1>10. {i \in DOMAIN K : K[i].type = "SaveVideo"} = {1}
  BY <1>1, <1>3, <1>6
<1>11. {i \in DOMAIN K : K[i].type = "CreateVideo"} = {14}
  BY <1>1, <1>3, <1>7
<1>12. {i \in DOMAIN K : K[i].type = "PrimitiveInt"} = {16, 17}
  BY <1>1, <1>3, <1>8
<1>13. SettingsNode(K) = <<K[3]>>
  BY <1>9, LeastOfOne DEF SettingsNode, FirstNode
<1>14. OutputNode(K) = <<K[1]>>
  BY <1>10, LeastOfOne DEF OutputNode, FirstNode
<1>15. VideoNode(K) = <<K[14]>>
  BY <1>11, LeastOfOne DEF VideoNode, FirstNode
<1>16. StepNodes(K) = [i \in {16, 17} |-> AllNodes(editor)[i]]
  BY <1>1, <1>12 DEF StepNodes, Restrict
<1> QED
  BY <1>1, <1>13, <1>14, <1>15, <1>16 DEF K

(* A widget whose places agree is read as it is shown.  *)
LEMMA AgreedWidget ==
  ASSUME NEW n, NEW m, HoldsWidgets(n, m), NEW keys, NEW index \in Int,
         index + 1 \in DOMAIN m.widgets, WidgetAgrees(n, keys, index)
  PROVE  WidgetValue(n, keys, index) = n.widgets[index + 1]
<1>1. AtPosition(n, index) = n.widgets[index + 1] /\ Defined(AtPosition(n, index))
  BY HeldParts DEF AtPosition
<1> QED
  BY <1>1 DEF WidgetAgrees, WidgetValue

LEMMA HeldNodeOf ==
  ASSUME WithinProfile, NEW i, NEW id, NEW c, i \in 1 .. 17, IsAt(i, id, c)
  PROVE  NodeOf(editor, id) = AllNodes(editor)[i]
<1> DEFINE all == AllNodes(editor)
<1>1. DOMAIN all = 1 .. 17 /\ all[i].id = id
  BY Held, HeldParts DEF IsAt
<1>2. ASSUME NEW n \in Range(all), n.id = id PROVE n = all[i]
  <2>1. PICK j \in 1 .. 17 : n = all[j]
    BY <1>1 DEF Range
  <2> QED
    BY <1>1, <1>2, <2>1, HeldOnce
<1>3. all[i] \in Range(all)
  BY <1>1 DEF Range
<1> HIDE DEF all
<1> QED
  BY <1>1, <1>2, <1>3 DEF NodeOf, all

LEMMA ShownAt ==
  ASSUME WithinProfile, NEW p \in Int
  PROVE  /\ Shown(editor, 140, p) = AllNodes(editor)[3].widgets[p + 1]
         /\ Shown(editor, 92, p) = AllNodes(editor)[1].widgets[p + 1]
         /\ Shown(editor, 130, p) = AllNodes(editor)[14].widgets[p + 1]
<1>1. NodeOf(editor, 140) = AllNodes(editor)[3]
  BY PinnedNodes, HeldNodeOf
<1>2. NodeOf(editor, 92) = AllNodes(editor)[1]
  BY PinnedNodes, HeldNodeOf
<1>3. NodeOf(editor, 130) = AllNodes(editor)[14]
  BY PinnedNodes, HeldNodeOf
<1> QED
  BY <1>1, <1>2, <1>3, Zenon DEF Shown

(* The settings and the positions of their widgets.  *)
Position == [ prompt |-> 0, width |-> 1, height |-> 2, duration |-> 3, seed |-> 4,
              diffusionModel |-> 5, textEncoder |-> 6, videoVae |-> 7, audioVae |-> 8, turbo |-> 9 ]

LEMMA SettingsRead ==
  ASSUME NEW s, s.type = Subgraph, NEW f \in DOMAIN Position
  PROVE  /\ f \in DOMAIN SettingsWidgets(s) /\ SettingsWidgets(s)[f][2] = Position[f]
         /\ Position[f] \in 0 .. 9
<1>1. /\ f \in {"prompt", "width", "height", "duration", "seed", "diffusionModel",
                "textEncoder", "videoVae", "audioVae", "turbo"}
  BY DEF Position
<1>2. CASE f \in {"prompt", "width", "height", "duration", "seed"}
  BY <1>2 DEF SettingsWidgets, Position
<1>3. CASE f \in {"diffusionModel", "textEncoder", "videoVae", "audioVae", "turbo"}
  BY <1>3 DEF SettingsWidgets, Position
<1> QED
  BY <1>1, <1>2, <1>3

LEMMA SettingIsShown ==
  ASSUME WithinProfile, NEW f \in DOMAIN Position
  PROVE  /\ Canvas[f] = Shown(editor, 140, Position[f])
         /\ Defined(Canvas[f])
<1> DEFINE s == AllNodes(editor)[3]
<1> DEFINE K == Kept(editor)
<1> DEFINE w == SettingsWidgets(s)
<1>1. SettingsNode(K) = <<s>> /\ s.type = Subgraph
  BY HeldPlaces, Held, HeldParts, PinnedNodes DEF IsAt
<1>2. f \in DOMAIN w /\ w[f][2] = Position[f] /\ Position[f] \in 0 .. 9
  BY <1>1, SettingsRead
<1>3. WidgetAgrees(s, w[f][1], w[f][2])
  <2>1. Disagreeing(K) = {}
    BY DEF WithinProfile
  <2>2. s \in Range(SettingsNode(K))
    BY <1>1 DEF Range
  <2> QED
    BY <1>2, <2>1, <2>2 DEF Disagreeing
<1>4. WidgetValue(s, w[f][1], w[f][2]) = s.widgets[Position[f] + 1]
  <2>1. HoldsWidgets(s, AllNodes(PinnedEditor)[3])
    BY Held
  <2>2. Position[f] + 1 \in DOMAIN AllNodes(PinnedEditor)[3].widgets
    BY <1>2, PinnedKeys
  <2> HIDE DEF s, w
  <2> QED
    BY <1>2, <1>3, <2>1, <2>2, AgreedWidget
<1>5. Defined(s.widgets[Position[f] + 1])
  BY <1>2, PinnedKeys, Held, HeldParts
<1>6. f \in EditorFields /\ f \notin {"fps", "outputPrefix", "steps", "frames"}
  BY DEF Position, EditorFields, ModelFields
<1>7. Canvas[f] = WidgetValue(s, w[f][1], w[f][2])
  <2> HIDE DEF s, w, K
  <2> QED
    BY <1>1, <1>6 DEF Canvas, EditorValues, K, w
<1> QED
  BY <1>2, <1>4, <1>5, <1>7, ShownAt

LEMMA OthersAreShown ==
  ASSUME WithinProfile
  PROVE  /\ Canvas["fps"] = Shown(editor, 130, 0)
         /\ Canvas["outputPrefix"] = Shown(editor, 92, 0)
<1> DEFINE K == Kept(editor)
<1> DEFINE v == AllNodes(editor)[14]
<1> DEFINE o == AllNodes(editor)[1]
<1>1. SettingsNode(K) # <<>> /\ VideoNode(K) = <<v>> /\ OutputNode(K) = <<o>>
  BY HeldPlaces
<1>2. Canvas["fps"] = WidgetValue(v, <<"fps">>, 0)
        /\ Canvas["outputPrefix"] = WidgetValue(o, <<"filename_prefix">>, 0)
  <2> HIDE DEF v, o, K
  <2>1. "fps" \in EditorFields /\ "outputPrefix" \in EditorFields
    BY DEF EditorFields
  <2> QED
    BY <1>1, <2>1 DEF Canvas, EditorValues, K
<1>3. WidgetAgrees(v, <<"fps">>, 0) /\ WidgetAgrees(o, <<"filename_prefix">>, 0)
  <2>1. Disagreeing(K) = {}
    BY DEF WithinProfile
  <2>2. v \in Range(VideoNode(K)) /\ o \in Range(OutputNode(K))
    BY <1>1 DEF Range
  <2> QED
    BY <2>1, <2>2 DEF Disagreeing
<1>4. HoldsWidgets(v, AllNodes(PinnedEditor)[14]) /\ HoldsWidgets(o, AllNodes(PinnedEditor)[1])
  BY Held
<1>5. 0 + 1 \in DOMAIN AllNodes(PinnedEditor)[14].widgets
        /\ 0 + 1 \in DOMAIN AllNodes(PinnedEditor)[1].widgets
  BY PinnedKeys
<1> HIDE DEF v, o
<1>6. WidgetValue(v, <<"fps">>, 0) = v.widgets[1]
  BY <1>3, <1>4, <1>5, AgreedWidget
<1>7. WidgetValue(o, <<"filename_prefix">>, 0) = o.widgets[1]
  BY <1>3, <1>4, <1>5, AgreedWidget
<1> QED
  BY <1>2, <1>6, <1>7, ShownAt DEF v, o

LEMMA HeldIsClean ==
  ASSUME WithinProfile
  PROVE  EditorIssues(editor) = {}
<1>1. Disagreeing(Kept(editor)) = {} /\ EditorReads(editor)
  BY DEF WithinProfile
<1>2. SettingsNode(Kept(editor)) # <<>>
  BY HeldPlaces
<1> QED
  BY <1>1, <1>2, HeldReads, HeldClasses DEF EditorIssues

-----------------------------------------------------------------------------
(* The graph exported from it *)

(* A node of the template stays one when literals are promoted into it.  *)
LEMMA PromotedNode ==
  ASSUME NEW i \in DOMAIN FIXTURE_WORKFLOW, NEW inputs, NEW node,
         node = With(FIXTURE_WORKFLOW[i], inputs),
         DOMAIN inputs \subseteq DOMAIN FIXTURE_WORKFLOW[i].inputs,
         \A f \in DOMAIN inputs :
           IF IsConnection(FIXTURE_WORKFLOW[i].inputs[f])
           THEN inputs[f] = FIXTURE_WORKFLOW[i].inputs[f]
           ELSE IsLiteral(inputs[f])
  PROVE  /\ node.class = FIXTURE_WORKFLOW[i].class
         /\ DOMAIN node.inputs = DOMAIN FIXTURE_WORKFLOW[i].inputs
         /\ \A f \in DOMAIN node.inputs :
              IF IsConnection(FIXTURE_WORKFLOW[i].inputs[f])
              THEN node.inputs[f] = FIXTURE_WORKFLOW[i].inputs[f]
              ELSE IsLiteral(node.inputs[f])
         /\ \A f \in DOMAIN inputs : node.inputs[f] = inputs[f]
<1> DEFINE kept == FIXTURE_WORKFLOW[i].inputs
<1>1. node.class = FIXTURE_WORKFLOW[i].class /\ node.inputs = Over(inputs, kept)
  <2>1. IsNode(FIXTURE_WORKFLOW[i])
    BY TemplateIsSound
  <2> QED
    BY <2>1 DEF With, IsNode, Node
<1> HIDE DEF kept
<1>2. DOMAIN node.inputs = DOMAIN kept
  BY <1>1 DEF kept, Over
<1>3. \A f \in DOMAIN inputs : node.inputs[f] = inputs[f]
  BY <1>1, OverEntry
<1>4. \A f \in DOMAIN kept : f \notin DOMAIN inputs => node.inputs[f] = kept[f]
  BY <1>1, OverEntry
<1>5. \A f \in DOMAIN kept : ~ IsConnection(kept[f]) => IsLiteral(kept[f])
  BY TemplateInput, LinksAndOthers DEF kept
<1> QED
  BY <1>1, <1>2, <1>3, <1>4, <1>5 DEF kept

(* The inputs that are promoted without the turbo mode. *)
Promoted(e, i) ==
  CASE i = 92 -> [filename_prefix |-> Shown(e, 92, 0)]
    [] i = 119 -> [vae_name |-> Shown(e, 140, 7)]
    [] i = 120 -> [vae_name |-> Shown(e, 140, 8)]
    [] i = 124 -> [steps |-> Shown(e, 137, 0), model |-> Link(127, 0)]
    [] i = 126 -> [model |-> Link(127, 0)]
    [] i = 127 -> [unet_name |-> Shown(e, 140, 5)]
    [] i = 128 -> [clip_name |-> Shown(e, 140, 6)]
    [] i = 129 -> [noise_seed |-> Shown(e, 140, 4)]
    [] i = 130 -> [fps |-> Shown(e, 130, 0)]
    [] i = 131 -> [prompt |-> Shown(e, 140, 0), width |-> Shown(e, 140, 1),
                   height |-> Shown(e, 140, 2),
                   length |-> Num(CanvasFrames(Shown(e, 140, 3).hundredths))]
    [] OTHER -> <<>>

LEMMA ExportedNodes ==
  ASSUME NEW e, Shown(e, 140, 9) # Flag(TRUE)
  PROVE  /\ Exported(e).shape = "object"
         /\ Exported(e).nodes =
              [i \in DOMAIN FIXTURE_WORKFLOW |-> With(FIXTURE_WORKFLOW[i], Promoted(e, i))]
BY DEF Exported, Promoted

LEMMA KindsAreLiterals ==
  /\ \A v : Is("txt", v) => IsLiteral(v) /\ Literal(v) = v
  /\ \A v : Is("num", v) => IsLiteral(v) /\ Literal(v) = v
BY DEF IsLiteral, Is, IsConnection, Literal, Defined, Undefined

LEMMA ShownValues ==
  ASSUME WithinProfile
  PROVE  /\ Shown(editor, 140, 9) # Flag(TRUE)
         /\ Shown(editor, 140, 0) = Canvas.prompt /\ Is("txt", Canvas.prompt)
         /\ Shown(editor, 140, 1) = Canvas.width /\ Is("num", Canvas.width)
         /\ Shown(editor, 140, 2) = Canvas.height /\ Is("num", Canvas.height)
         /\ Shown(editor, 140, 3) = Canvas.duration
         /\ Shown(editor, 140, 4) = Canvas.seed /\ Is("num", Canvas.seed)
         /\ Shown(editor, 140, 5) = Txt(ModelFile["diffusionModel"])
         /\ Shown(editor, 140, 6) = Txt(ModelFile["textEncoder"])
         /\ Shown(editor, 140, 7) = Txt(ModelFile["videoVae"])
         /\ Shown(editor, 140, 8) = Txt(ModelFile["audioVae"])
         /\ Shown(editor, 137, 0) = Num(DefaultSteps)
         /\ Shown(editor, 130, 0) = Num(Fps)
         /\ Shown(editor, 92, 0) = Canvas.outputPrefix /\ Is("txt", Canvas.outputPrefix)
<1>1. \A f \in DOMAIN Position : Canvas[f] = Shown(editor, 140, Position[f])
  BY SettingIsShown
<1>2. /\ Position.prompt = 0 /\ Position.width = 1 /\ Position.height = 2
      /\ Position.duration = 3 /\ Position.seed = 4 /\ Position.diffusionModel = 5
      /\ Position.textEncoder = 6 /\ Position.videoVae = 7 /\ Position.audioVae = 8
      /\ Position.turbo = 9
      /\ {"prompt", "width", "height", "duration", "seed", "diffusionModel", "textEncoder",
           "videoVae", "audioVae", "turbo"} = DOMAIN Position
  BY DEF Position
<1>3. /\ Canvas.prompt = Shown(editor, 140, 0) /\ Canvas.width = Shown(editor, 140, 1)
      /\ Canvas.height = Shown(editor, 140, 2) /\ Canvas.duration = Shown(editor, 140, 3)
      /\ Canvas.seed = Shown(editor, 140, 4) /\ Canvas.diffusionModel = Shown(editor, 140, 5)
      /\ Canvas.textEncoder = Shown(editor, 140, 6) /\ Canvas.videoVae = Shown(editor, 140, 7)
      /\ Canvas.audioVae = Shown(editor, 140, 8) /\ Canvas.turbo = Shown(editor, 140, 9)
  BY <1>1, <1>2
<1>4. /\ ValidPrompt(Canvas.prompt) /\ ValidDimensions(Canvas.width, Canvas.height)
      /\ ValidSeed(Canvas.seed) /\ ValidOutputPrefix(Canvas.outputPrefix)
      /\ Canvas.steps = Num(DefaultSteps) /\ Shown(editor, 137, 0) = Canvas.steps
      /\ Canvas.fps = Num(Fps) /\ Canvas.turbo = Flag(FALSE)
  BY DEF WithinProfile
<1>5. \A f \in ModelFields : Canvas[f] = Txt(ModelFile[f])
  BY DEF WithinProfile
<1>6. /\ Canvas.diffusionModel = Txt(ModelFile["diffusionModel"])
      /\ Canvas.textEncoder = Txt(ModelFile["textEncoder"])
      /\ Canvas.videoVae = Txt(ModelFile["videoVae"])
      /\ Canvas.audioVae = Txt(ModelFile["audioVae"])
  BY <1>5 DEF ModelFields
<1>7. /\ Is("txt", Canvas.prompt) /\ Is("num", Canvas.width) /\ Is("num", Canvas.height)
      /\ Is("num", Canvas.seed) /\ Is("txt", Canvas.outputPrefix)
  BY <1>4 DEF ValidPrompt, ValidDimensions, ValidSeed, ValidOutputPrefix, IsInteger
<1>8. Flag(FALSE) # Flag(TRUE)
  BY Zenon DEF Flag
<1> QED
  BY <1>3, <1>4, <1>6, <1>7, <1>8, OthersAreShown

(* A node as the template has it, its literals apart.  *)
Copies(net, i) ==
  /\ net[i].class = FIXTURE_WORKFLOW[i].class
  /\ DOMAIN net[i].inputs = DOMAIN FIXTURE_WORKFLOW[i].inputs
  /\ \A f \in DOMAIN net[i].inputs :
       IF IsConnection(FIXTURE_WORKFLOW[i].inputs[f])
       THEN net[i].inputs[f] = FIXTURE_WORKFLOW[i].inputs[f]
       ELSE IsLiteral(net[i].inputs[f])

LEMMA ExportedIsShaped ==
  ASSUME WithinProfile
  PROVE  LET net == Exported(editor).nodes IN
         /\ Exported(editor).shape = "object" /\ Shaped(net)
         /\ net[131].inputs.prompt = Canvas.prompt /\ net[131].inputs.width = Canvas.width
         /\ net[131].inputs.height = Canvas.height
         /\ net[131].inputs.length = Num(CanvasFrames(Canvas.duration.hundredths))
         /\ net[124].inputs.steps = Num(DefaultSteps) /\ net[129].inputs.noise_seed = Canvas.seed
         /\ net[127].inputs.unet_name = Txt(ModelFile["diffusionModel"])
         /\ net[128].inputs.clip_name = Txt(ModelFile["textEncoder"])
         /\ net[130].inputs.fps = Num(Fps) /\ net[92].inputs.filename_prefix = Canvas.outputPrefix
<1> DEFINE net == Exported(editor).nodes
<1>1. /\ Exported(editor).shape = "object" /\ net = [i \in DOMAIN FIXTURE_WORKFLOW |-> net[i]]
      /\ \A i \in DOMAIN FIXTURE_WORKFLOW :
           net[i] = With(FIXTURE_WORKFLOW[i], Promoted(editor, i))
  <2>1. /\ Exported(editor).shape = "object"
        /\ net = [i \in DOMAIN FIXTURE_WORKFLOW |-> With(FIXTURE_WORKFLOW[i], Promoted(editor, i))]
    BY ShownValues, ExportedNodes
  <2> HIDE DEF net
  <2> QED
    BY <2>1
<1> HIDE DEF net
<1>2. ASSUME NEW i \in DOMAIN FIXTURE_WORKFLOW, NEW inputs,
             net[i] = With(FIXTURE_WORKFLOW[i], inputs),
             DOMAIN inputs \subseteq DOMAIN FIXTURE_WORKFLOW[i].inputs,
             \A f \in DOMAIN inputs :
               IF IsConnection(FIXTURE_WORKFLOW[i].inputs[f])
               THEN inputs[f] = FIXTURE_WORKFLOW[i].inputs[f]
               ELSE IsLiteral(inputs[f])
      PROVE  Copies(net, i) /\ \A f \in DOMAIN inputs : net[i].inputs[f] = inputs[f]
  BY <1>2, PromotedNode DEF Copies
<1>3. Copies(net, 92) /\ net[92].inputs.filename_prefix = Canvas.outputPrefix
  <2> DEFINE inputs == Promoted(editor, 92)
  <2>1. 92 \in DOMAIN FIXTURE_WORKFLOW /\ net[92] = With(FIXTURE_WORKFLOW[92], inputs)
    BY <1>1, TemplateIds
  <2>2. DOMAIN inputs = {"filename_prefix"} /\ inputs["filename_prefix"] = Canvas.outputPrefix
    BY ShownValues DEF Promoted
  <2>3. "filename_prefix" \in DOMAIN FIXTURE_WORKFLOW[92].inputs
          /\ ~ IsConnection(FIXTURE_WORKFLOW[92].inputs["filename_prefix"])
    BY TemplateNodes DEF IsLiteral
  <2>4. IsLiteral(Canvas.outputPrefix)
    BY ShownValues, KindsAreLiterals, LinksAndOthers
  <2> HIDE DEF inputs
  <2>5. Copies(net, 92) /\ \A f \in DOMAIN inputs : net[92].inputs[f] = inputs[f]
    BY <1>2, <2>1, <2>2, <2>3, <2>4
  <2> QED
    BY <2>2, <2>5
<1>4. Copies(net, 119) /\ net[119].inputs.vae_name = Txt(ModelFile["videoVae"])
  <2> DEFINE inputs == Promoted(editor, 119)
  <2>1. 119 \in DOMAIN FIXTURE_WORKFLOW /\ net[119] = With(FIXTURE_WORKFLOW[119], inputs)
    BY <1>1, TemplateIds
  <2>2. DOMAIN inputs = {"vae_name"} /\ inputs["vae_name"] = Txt(ModelFile["videoVae"])
    BY ShownValues DEF Promoted
  <2>3. "vae_name" \in DOMAIN FIXTURE_WORKFLOW[119].inputs
          /\ ~ IsConnection(FIXTURE_WORKFLOW[119].inputs["vae_name"])
    BY TemplateNodes DEF IsLiteral
  <2>4. IsLiteral(Txt(ModelFile["videoVae"]))
    BY ShownValues, KindsAreLiterals, LinksAndOthers
  <2> HIDE DEF inputs
  <2>5. Copies(net, 119) /\ \A f \in DOMAIN inputs : net[119].inputs[f] = inputs[f]
    BY <1>2, <2>1, <2>2, <2>3, <2>4
  <2> QED
    BY <2>2, <2>5
<1>5. Copies(net, 120) /\ net[120].inputs.vae_name = Txt(ModelFile["audioVae"])
  <2> DEFINE inputs == Promoted(editor, 120)
  <2>1. 120 \in DOMAIN FIXTURE_WORKFLOW /\ net[120] = With(FIXTURE_WORKFLOW[120], inputs)
    BY <1>1, TemplateIds
  <2>2. DOMAIN inputs = {"vae_name"} /\ inputs["vae_name"] = Txt(ModelFile["audioVae"])
    BY ShownValues DEF Promoted
  <2>3. "vae_name" \in DOMAIN FIXTURE_WORKFLOW[120].inputs
          /\ ~ IsConnection(FIXTURE_WORKFLOW[120].inputs["vae_name"])
    BY TemplateNodes DEF IsLiteral
  <2>4. IsLiteral(Txt(ModelFile["audioVae"]))
    BY ShownValues, KindsAreLiterals, LinksAndOthers
  <2> HIDE DEF inputs
  <2>5. Copies(net, 120) /\ \A f \in DOMAIN inputs : net[120].inputs[f] = inputs[f]
    BY <1>2, <2>1, <2>2, <2>3, <2>4
  <2> QED
    BY <2>2, <2>5
<1>6. Copies(net, 121)
  <2>1. 121 \in DOMAIN FIXTURE_WORKFLOW /\ net[121] = With(FIXTURE_WORKFLOW[121], Promoted(editor, 121))
    BY <1>1, TemplateIds
  <2>2. DOMAIN Promoted(editor, 121) = {}
    BY DEF Promoted
  <2> QED
    BY <1>2, <2>1, <2>2
<1>7. Copies(net, 122)
  <2>1. 122 \in DOMAIN FIXTURE_WORKFLOW /\ net[122] = With(FIXTURE_WORKFLOW[122], Promoted(editor, 122))
    BY <1>1, TemplateIds
  <2>2. DOMAIN Promoted(editor, 122) = {}
    BY DEF Promoted
  <2> QED
    BY <1>2, <2>1, <2>2
<1>8. Copies(net, 123)
  <2>1. 123 \in DOMAIN FIXTURE_WORKFLOW /\ net[123] = With(FIXTURE_WORKFLOW[123], Promoted(editor, 123))
    BY <1>1, TemplateIds
  <2>2. DOMAIN Promoted(editor, 123) = {}
    BY DEF Promoted
  <2> QED
    BY <1>2, <2>1, <2>2
<1>9. Copies(net, 124) /\ net[124].inputs.steps = Num(DefaultSteps)
  <2> DEFINE inputs == Promoted(editor, 124)
  <2>1. 124 \in DOMAIN FIXTURE_WORKFLOW /\ net[124] = With(FIXTURE_WORKFLOW[124], inputs)
    BY <1>1, TemplateIds
  <2>2. /\ DOMAIN inputs = {"steps", "model"} /\ inputs["steps"] = Num(DefaultSteps)
        /\ inputs["model"] = Link(127, 0)
    BY ShownValues DEF Promoted
  <2>3. /\ {"steps", "model"} \subseteq DOMAIN FIXTURE_WORKFLOW[124].inputs
        /\ FIXTURE_WORKFLOW[124].inputs["model"] = Link(127, 0)
        /\ ~ IsConnection(FIXTURE_WORKFLOW[124].inputs["steps"])
    BY TemplateNodes DEF IsLiteral
  <2>4. IsLiteral(Num(DefaultSteps)) /\ IsConnection(Link(127, 0))
    BY LinksAndOthers
  <2> HIDE DEF inputs
  <2>5. Copies(net, 124) /\ \A f \in DOMAIN inputs : net[124].inputs[f] = inputs[f]
    BY <1>2, <2>1, <2>2, <2>3, <2>4
  <2> QED
    BY <2>2, <2>5
<1>10. Copies(net, 125)
  <2>1. 125 \in DOMAIN FIXTURE_WORKFLOW /\ net[125] = With(FIXTURE_WORKFLOW[125], Promoted(editor, 125))
    BY <1>1, TemplateIds
  <2>2. DOMAIN Promoted(editor, 125) = {}
    BY DEF Promoted
  <2> QED
    BY <1>2, <2>1, <2>2
<1>11. Copies(net, 126)
  <2> DEFINE inputs == Promoted(editor, 126)
  <2>1. 126 \in DOMAIN FIXTURE_WORKFLOW /\ net[126] = With(FIXTURE_WORKFLOW[126], inputs)
    BY <1>1, TemplateIds
  <2>2. DOMAIN inputs = {"model"} /\ inputs["model"] = Link(127, 0)
    BY ShownValues DEF Promoted
  <2>3. "model" \in DOMAIN FIXTURE_WORKFLOW[126].inputs
          /\ FIXTURE_WORKFLOW[126].inputs["model"] = Link(127, 0)
    BY TemplateNodes
  <2> HIDE DEF inputs
  <2> QED
    BY <1>2, <2>1, <2>2, <2>3, LinksAndOthers
<1>12. Copies(net, 127) /\ net[127].inputs.unet_name = Txt(ModelFile["diffusionModel"])
  <2> DEFINE inputs == Promoted(editor, 127)
  <2>1. 127 \in DOMAIN FIXTURE_WORKFLOW /\ net[127] = With(FIXTURE_WORKFLOW[127], inputs)
    BY <1>1, TemplateIds
  <2>2. DOMAIN inputs = {"unet_name"} /\ inputs["unet_name"] = Txt(ModelFile["diffusionModel"])
    BY ShownValues DEF Promoted
  <2>3. "unet_name" \in DOMAIN FIXTURE_WORKFLOW[127].inputs
          /\ ~ IsConnection(FIXTURE_WORKFLOW[127].inputs["unet_name"])
    BY TemplateNodes DEF IsLiteral
  <2>4. IsLiteral(Txt(ModelFile["diffusionModel"]))
    BY ShownValues, KindsAreLiterals, LinksAndOthers
  <2> HIDE DEF inputs
  <2>5. Copies(net, 127) /\ \A f \in DOMAIN inputs : net[127].inputs[f] = inputs[f]
    BY <1>2, <2>1, <2>2, <2>3, <2>4
  <2> QED
    BY <2>2, <2>5
<1>13. Copies(net, 128) /\ net[128].inputs.clip_name = Txt(ModelFile["textEncoder"])
  <2> DEFINE inputs == Promoted(editor, 128)
  <2>1. 128 \in DOMAIN FIXTURE_WORKFLOW /\ net[128] = With(FIXTURE_WORKFLOW[128], inputs)
    BY <1>1, TemplateIds
  <2>2. DOMAIN inputs = {"clip_name"} /\ inputs["clip_name"] = Txt(ModelFile["textEncoder"])
    BY ShownValues DEF Promoted
  <2>3. "clip_name" \in DOMAIN FIXTURE_WORKFLOW[128].inputs
          /\ ~ IsConnection(FIXTURE_WORKFLOW[128].inputs["clip_name"])
    BY TemplateNodes DEF IsLiteral
  <2>4. IsLiteral(Txt(ModelFile["textEncoder"]))
    BY ShownValues, KindsAreLiterals, LinksAndOthers
  <2> HIDE DEF inputs
  <2>5. Copies(net, 128) /\ \A f \in DOMAIN inputs : net[128].inputs[f] = inputs[f]
    BY <1>2, <2>1, <2>2, <2>3, <2>4
  <2> QED
    BY <2>2, <2>5
<1>14. Copies(net, 129) /\ net[129].inputs.noise_seed = Canvas.seed
  <2> DEFINE inputs == Promoted(editor, 129)
  <2>1. 129 \in DOMAIN FIXTURE_WORKFLOW /\ net[129] = With(FIXTURE_WORKFLOW[129], inputs)
    BY <1>1, TemplateIds
  <2>2. DOMAIN inputs = {"noise_seed"} /\ inputs["noise_seed"] = Canvas.seed
    BY ShownValues DEF Promoted
  <2>3. "noise_seed" \in DOMAIN FIXTURE_WORKFLOW[129].inputs
          /\ ~ IsConnection(FIXTURE_WORKFLOW[129].inputs["noise_seed"])
    BY TemplateNodes DEF IsLiteral
  <2>4. IsLiteral(Canvas.seed)
    BY ShownValues, KindsAreLiterals, LinksAndOthers
  <2> HIDE DEF inputs
  <2>5. Copies(net, 129) /\ \A f \in DOMAIN inputs : net[129].inputs[f] = inputs[f]
    BY <1>2, <2>1, <2>2, <2>3, <2>4
  <2> QED
    BY <2>2, <2>5
<1>15. Copies(net, 130) /\ net[130].inputs.fps = Num(Fps)
  <2> DEFINE inputs == Promoted(editor, 130)
  <2>1. 130 \in DOMAIN FIXTURE_WORKFLOW /\ net[130] = With(FIXTURE_WORKFLOW[130], inputs)
    BY <1>1, TemplateIds
  <2>2. DOMAIN inputs = {"fps"} /\ inputs["fps"] = Num(Fps)
    BY ShownValues DEF Promoted
  <2>3. "fps" \in DOMAIN FIXTURE_WORKFLOW[130].inputs
          /\ ~ IsConnection(FIXTURE_WORKFLOW[130].inputs["fps"])
    BY TemplateNodes DEF IsLiteral
  <2>4. IsLiteral(Num(Fps))
    BY ShownValues, KindsAreLiterals, LinksAndOthers
  <2> HIDE DEF inputs
  <2>5. Copies(net, 130) /\ \A f \in DOMAIN inputs : net[130].inputs[f] = inputs[f]
    BY <1>2, <2>1, <2>2, <2>3, <2>4
  <2> QED
    BY <2>2, <2>5
<1>16. /\ Copies(net, 131) /\ net[131].inputs.prompt = Canvas.prompt
      /\ net[131].inputs.width = Canvas.width /\ net[131].inputs.height = Canvas.height
      /\ net[131].inputs.length = Num(CanvasFrames(Canvas.duration.hundredths))
  <2> DEFINE frames == Num(CanvasFrames(Canvas.duration.hundredths))
  <2> DEFINE inputs == Promoted(editor, 131)
  <2> DEFINE literals == {"prompt", "width", "height", "length"}
  <2>1. 131 \in DOMAIN FIXTURE_WORKFLOW /\ net[131] = With(FIXTURE_WORKFLOW[131], inputs)
    BY <1>1, TemplateIds
  <2>2. IsLiteral(frames)
    BY LinksAndOthers
  <2> HIDE DEF frames
  <2>3. /\ DOMAIN inputs = literals /\ inputs["prompt"] = Canvas.prompt
        /\ inputs["width"] = Canvas.width /\ inputs["height"] = Canvas.height
        /\ inputs["length"] = frames
    BY ShownValues DEF Promoted, frames
  <2>4. literals \subseteq DOMAIN FIXTURE_WORKFLOW[131].inputs
          /\ \A f \in literals : ~ IsConnection(FIXTURE_WORKFLOW[131].inputs[f])
    BY TemplateNodes DEF IsLiteral
  <2>5. /\ IsLiteral(Canvas.prompt) /\ IsLiteral(Canvas.width) /\ IsLiteral(Canvas.height)
    BY ShownValues, KindsAreLiterals
  <2> HIDE DEF inputs
  <2>6. \A f \in literals : IsLiteral(inputs[f])
    BY <2>2, <2>3, <2>5
  <2>7. Copies(net, 131) /\ \A f \in DOMAIN inputs : net[131].inputs[f] = inputs[f]
    BY <1>2, <2>1, <2>3, <2>4, <2>6
  <2> QED
    BY <2>3, <2>7 DEF frames
<1>17. \A i \in DOMAIN FIXTURE_WORKFLOW : Copies(net, i)
  BY <1>3, <1>4, <1>5, <1>6, <1>7, <1>8, <1>9, <1>10, <1>11, <1>12, <1>13, <1>14, <1>15, <1>16, TemplateIds
<1>18. Shaped(net)
  BY <1>1, <1>4, <1>5, <1>17 DEF Shaped, Copies, VideoVaeNode, AudioVaeNode
<1> QED
  BY <1>1, <1>3, <1>4, <1>5, <1>9, <1>12, <1>13, <1>14, <1>15, <1>16, <1>18 DEF net

(* Of whole frames, the canvas and the profile go up to the same length. *)
LEMMA FramesAgree ==
  ASSUME NEW h \in 1 .. MaxDuration, (Fps * h) % 100 = 0
  PROVE  FramesOf(h) = Num(CanvasFrames(h)) /\ OnGrid(FramesOf(h))
<1>1. PICK F \in Int : 24 * h = 100 * F /\ F >= 1
  <2>1. 24 * h = 100 * ((24 * h) \div 100) /\ (24 * h) \div 100 \in Int
    BY DEF Fps
  <2> QED
    BY <2>1
<1> DEFINE q == (-(Fps * h - 500)) \div 1700
<1> DEFINE made == 17 * (-q) + 5
<1> DEFINE r == Max({5, (Fps * h + 50) \div 100})
<1> DEFINE up == (5 - (r % 17)) % 17
<1>2. FramesOf(h) = Num(made)
  BY DEF FramesOf, CeilDiv, MaxDuration
<1>3. q \in Int /\ 1700 * q <= 500 - 100 * F /\ 500 - 100 * F < 1700 * q + 1700
  BY <1>1 DEF Fps
<1>4. r = IF F < 5 THEN 5 ELSE F
  <2>1. (Fps * h + 50) \div 100 = F
    BY <1>1 DEF Fps
  <2> QED
    BY <2>1 DEF Max
<1>5. r \in Int /\ up \in 0 .. 16 /\ (r + up - 5) % 17 = 0
  <2>1. r \in Int
    BY <1>4
  <2> HIDE DEF r
  <2>2. PICK a \in Int, b \in 0 .. 16 : r = 17 * a + b
    <3>1. r = 17 * (r \div 17) + (r % 17) /\ r \div 17 \in Int /\ r % 17 \in 0 .. 16
      BY <2>1
    <3> QED
      BY <3>1
  <2>3. r % 17 = b
    BY <2>2
  <2> QED
    BY <2>1, <2>2, <2>3
<1>6. CanvasFrames(h) = r + up
  BY DEF CanvasFrames
<1> HIDE DEF q, r, up
<1>7. made \in Int /\ made >= 5 /\ (made - 5) % 17 = 0 /\ F <= made /\ made < r + 17 /\ r <= made
  BY <1>1, <1>3, <1>4
<1>8. made = r + up
  <2>1. PICK c \in Int : r + up - 5 = 17 * c
    <3> DEFINE x == r + up - 5
    <3>1. x \in Int /\ x % 17 = 0
      BY <1>5
    <3> HIDE DEF x
    <3>2. x = 17 * (x \div 17) /\ x \div 17 \in Int
      BY <3>1
    <3> QED
      BY <3>2 DEF x
  <2> QED
    BY <1>1, <1>3, <1>4, <1>5, <1>7, <2>1
<1>9. OnGrid(Num(made))
  BY <1>7 DEF OnGrid, IsInteger, Is, Num
<1> QED
  BY <1>2, <1>6, <1>8, <1>9

-----------------------------------------------------------------------------
(* The export is valid *)

LEMMA ExportIsRead ==
  ASSUME WithinProfile, api = Exported(editor)
  PROVE  /\ ApiIssues(api) = {} /\ Canvas.duration.hundredths \in 1 .. MaxDuration
         /\ \A f \in {"prompt", "width", "height", "seed", "outputPrefix"} :
              ApiValues(api)[f] = Canvas[f]
         /\ ApiValues(api).steps = Num(DefaultSteps) /\ ApiValues(api).fps = Num(Fps)
         /\ ApiValues(api).turbo = Flag(FALSE)
         /\ ApiValues(api).frames = FramesOf(Canvas.duration.hundredths)
         /\ OnGrid(ApiValues(api).frames)
         /\ \A f \in ModelFields : ApiValues(api)[f] = Txt(ModelFile[f])
<1> DEFINE net == api.nodes
<1>1. Canvas.duration.hundredths \in 1 .. MaxDuration
        /\ (Fps * Canvas.duration.hundredths) % 100 = 0
  BY DEF WithinProfile
<1>2. Num(CanvasFrames(Canvas.duration.hundredths)) = FramesOf(Canvas.duration.hundredths)
        /\ OnGrid(FramesOf(Canvas.duration.hundredths))
  BY <1>1, FramesAgree
<1>3. /\ api.shape = "object" /\ Shaped(net)
      /\ net[131].inputs.prompt = Canvas.prompt /\ net[131].inputs.width = Canvas.width
      /\ net[131].inputs.height = Canvas.height
      /\ net[131].inputs.length = FramesOf(Canvas.duration.hundredths)
      /\ net[124].inputs.steps = Num(DefaultSteps) /\ net[129].inputs.noise_seed = Canvas.seed
      /\ net[127].inputs.unet_name = Txt(ModelFile["diffusionModel"])
      /\ net[128].inputs.clip_name = Txt(ModelFile["textEncoder"])
      /\ net[130].inputs.fps = Num(Fps) /\ net[92].inputs.filename_prefix = Canvas.outputPrefix
  BY <1>2, ExportedIsShaped
<1>4. ApiIssues(api) = {}
  BY <1>3, ShapedIsClean DEF Clean
<1>5. /\ \A f \in DOMAIN LiteralInputs : ApiValues(api)[f] = Literal(LiteralsOf(net)[f])
      /\ ApiValues(api).turbo = Flag(FALSE)
      /\ \A f \in Vaes : ApiValues(api)[f] = Txt(ModelFile[f])
  BY <1>3, ShapedValues
<1>6. DOMAIN LiteralInputs = {"prompt", "width", "height", "frames", "seed", "steps", "fps",
                              "diffusionModel", "textEncoder", "outputPrefix"}
  BY DEF LiteralInputs
<1>7. /\ LiteralsOf(net)["prompt"] = Canvas.prompt /\ LiteralsOf(net)["width"] = Canvas.width
      /\ LiteralsOf(net)["height"] = Canvas.height
      /\ LiteralsOf(net)["frames"] = FramesOf(Canvas.duration.hundredths)
      /\ LiteralsOf(net)["seed"] = Canvas.seed /\ LiteralsOf(net)["steps"] = Num(DefaultSteps)
      /\ LiteralsOf(net)["fps"] = Num(Fps)
      /\ LiteralsOf(net)["diffusionModel"] = Txt(ModelFile["diffusionModel"])
      /\ LiteralsOf(net)["textEncoder"] = Txt(ModelFile["textEncoder"])
      /\ LiteralsOf(net)["outputPrefix"] = Canvas.outputPrefix
  BY <1>3 DEF LiteralsOf
<1>8. /\ Literal(Canvas.prompt) = Canvas.prompt /\ Literal(Canvas.width) = Canvas.width
      /\ Literal(Canvas.height) = Canvas.height /\ Literal(Canvas.seed) = Canvas.seed
      /\ Literal(Canvas.outputPrefix) = Canvas.outputPrefix
  BY ShownValues, KindsAreLiterals
<1>9. /\ (\A n : Literal(Num(n)) = Num(n)) /\ (\A t : Literal(Txt(t)) = Txt(t))
  BY LinksAndOthers
<1>10. /\ ApiValues(api).steps = Num(DefaultSteps) /\ ApiValues(api).fps = Num(Fps)
       /\ ApiValues(api).frames = FramesOf(Canvas.duration.hundredths)
       /\ ApiValues(api)["diffusionModel"] = Txt(ModelFile["diffusionModel"])
       /\ ApiValues(api)["textEncoder"] = Txt(ModelFile["textEncoder"])
  BY <1>2, <1>5, <1>6, <1>7, <1>9
<1>11. \A f \in {"prompt", "width", "height", "seed", "outputPrefix"} :
         ApiValues(api)[f] = Canvas[f]
  BY <1>5, <1>6, <1>7, <1>8
<1>12. \A f \in ModelFields : ApiValues(api)[f] = Txt(ModelFile[f])
  BY <1>5, <1>10 DEF ModelFields, Vaes
<1> QED
  BY <1>1, <1>2, <1>4, <1>5, <1>10, <1>11, <1>12

LEMMA ExportHasNoIssue ==
  ASSUME WithinProfile, api = Exported(editor)
  PROVE  /\ ValueIssues(Canvas, ApiValues(api)) = {}
         /\ ComparisonIssues(Canvas, ApiValues(api)) = {}
         /\ Defined(EffectiveParameters(Canvas, ApiValues(api)))
<1> DEFINE canvas == Canvas
<1> DEFINE run == ApiValues(api)
<1>1. /\ ValidPrompt(canvas.prompt) /\ ValidDimensions(canvas.width, canvas.height)
      /\ ValidSeed(canvas.seed) /\ ValidOutputPrefix(canvas.outputPrefix)
      /\ canvas.steps = Num(DefaultSteps)
      /\ canvas.fps = Num(Fps) /\ canvas.turbo = Flag(FALSE)
      /\ Is("hundredths", canvas.duration)
      /\ \A f \in ModelFields : canvas[f] = Txt(ModelFile[f])
  BY DEF WithinProfile
<1>2. /\ run.prompt = canvas.prompt /\ run.width = canvas.width /\ run.height = canvas.height
      /\ run.seed = canvas.seed /\ run.outputPrefix = canvas.outputPrefix
      /\ run.steps = Num(DefaultSteps) /\ run.fps = Num(Fps) /\ run.turbo = Flag(FALSE)
      /\ run.frames = FramesOf(canvas.duration.hundredths) /\ OnGrid(run.frames)
      /\ \A f \in ModelFields : run[f] = Txt(ModelFile[f])
  BY ExportIsRead
<1>3. canvas.duration.hundredths \in Int
  <2>1. canvas.duration.hundredths \in 1 .. MaxDuration
    BY ExportIsRead
  <2>2. MaxDuration \in Int
    BY DEF MaxDuration
  <2> HIDE DEF canvas
  <2> QED
    BY <2>1, <2>2
<1> HIDE DEF canvas, run
<1>4. FiniteDuration(canvas.duration) /\ Hundredths(canvas.duration) = canvas.duration.hundredths
  BY <1>1, <1>3 DEF FiniteDuration, Hundredths, Is
<1>5. ExpectedFrames(canvas) = run.frames /\ OnGrid(ExpectedFrames(canvas))
  BY <1>2, <1>4 DEF ExpectedFrames
<1>6. ValueIssues(canvas, run) = {}
  BY <1>1, <1>2, <1>5 DEF ValueIssues, Unless, Differs
<1>7. \A f \in ComparedFields : ~ Differs(canvas[f], run[f])
  BY <1>1, <1>2 DEF ComparedFields, Differs
<1>8. ComparisonIssues(canvas, run) = {}
  BY <1>1, <1>2, <1>7 DEF ComparisonIssues, Unless
<1>9. Defined(run.frames)
  BY <1>2, Kinds DEF OnGrid
<1>10. Defined(EffectiveParameters(canvas, run))
  <2> DEFINE made == [f \in ApiFields \cup {"duration"} |->
                        IF f = "duration" THEN canvas.duration ELSE run[f]]
  <2>1. EffectiveParameters(canvas, run) = made
    BY <1>1, <1>2, <1>4, <1>5, <1>9 DEF EffectiveParameters
  <2>2. DOMAIN made # DOMAIN Undefined
    BY DEF Undefined
  <2> HIDE DEF made
  <2> QED
    BY <2>1, <2>2 DEF Defined
<1> QED
  BY <1>6, <1>8, <1>10 DEF canvas, run

(* A canvas within the profile exports a graph that passes every check.    *)
THEOREM ExportsAreValid == Spec => []ExportIsValid
<1>1. ExportIsValid
  <2> SUFFICES ASSUME WithinProfile, api = Exported(editor)
               PROVE  Local.valid /\ Defined(Local.effective)
    BY DEF ExportIsValid
  <2>1. ApiIssues(api) = {} /\ EditorIssues(editor) = {}
    BY ExportIsRead, HeldIsClean
  <2>2. /\ ValueIssues(Canvas, ApiValues(api)) = {}
        /\ ComparisonIssues(Canvas, ApiValues(api)) = {}
        /\ Defined(EffectiveParameters(Canvas, ApiValues(api)))
    BY ExportHasNoIssue
  <2> QED
    BY <2>1, <2>2 DEF Local, Validation, Unless, NotAsked, Canvas
<1> QED
  BY <1>1, PTL

================================================================================
