------------------------------- MODULE MCServer -------------------------------
(* Instances of Server.                                                    *)
EXTENDS Server

(* Requests of signature "s", of which two fit into the cost budget,       *)
(* requests of signature "t", of which two are allowed by a rule for their *)
(* resolution, one with an input image, a group, updates of the weights,   *)
(* another request and a shutdown                                          *)
MCItems == {"s1", "s2", "s3", "t1", "image", "group", "up1", "up2", "lora", "shutdown"}
MCType ==
  [i \in MCItems |-> CASE i = "group"    -> "group"
                       [] i = "lora"     -> "other"
                       [] i = "shutdown" -> "shutdown"
                       [] i \in {"up1", "up2"} -> "update"
                       [] OTHER          -> "req"]
MCSig        == [i \in MCItems |-> IF i = "t1" THEN "t" ELSE "s"]
MCBatchable  == {"s1", "s2", "s3", "t1"}
MCSignatures == {"s", "t"}
MCResolution == [sig \in MCSignatures |-> IF sig = "s" THEN "512x512" ELSE "1024x1024"]
MCCost       == [sig \in MCSignatures |-> IF sig = "s" THEN 2 ELSE 1]
MCOutputs    == [sig \in MCSignatures |-> IF sig = "s" THEN 2 ELSE 1]
MCRules ==
  {[resolution |-> AnyResolution, max_batch_size |-> 4, max_cost |-> 5],
   [resolution |-> "1024x1024", max_batch_size |-> 2, max_cost |-> NoLimit]}

(* A pipeline with two denoisers, as Wan 2.2: the stage that encodes an    *)
(* image declares the vae too, and uses it only for requests with one.     *)
Decl(s, c, p, h, pref, kw) ==
  [stage |-> s, component |-> c, phase |-> p, heavy |-> h, preferred |-> pref,
   keepWarm |-> kw, beginOnly |-> c = "text_encoder"]
MCTimeline == <<
  Decl("TextEncoding", "text_encoder", "", FALSE, TRUE, FALSE),
  Decl("ImageVAEEncoding", "vae", "", FALSE, FALSE, FALSE),
  Decl("Denoising", "transformer", "transformer", TRUE, TRUE, FALSE),
  Decl("Denoising", "transformer_2", "transformer_2", TRUE, FALSE, FALSE),
  Decl("Decoding", "vae", "", FALSE, FALSE, TRUE) >>
MCComponents == {"text_encoder", "vae", "transformer", "transformer_2"}
Resident     == [c \in MCComponents |-> "resident"]
Strategies(vaes) ==
  {f \in [MCComponents -> {"resident", "vanilla", "layerwise"}] :
     f["text_encoder"] = "vanilla" /\ f["vae"] \in vaes}

(* A checkpoint "base" to start from, "tuned" that fits, "odd" whose vae   *)
(* has a parameter of another shape, and "dit" with a transformer only,    *)
(* whose file lacks a parameter                                            *)
MCModules     == {"transformer", "vae"}
MCParams      == {"w1", "w2"}
MCCheckpoints == {"base", "tuned", "odd", "dit"}
MCDirs    == ({"base", "tuned", "odd"} \X MCModules) \cup {<<"dit", "transformer">>}
MCMisfits == {<<"odd", "vae", "w2">>}
MCAbsent  == {<<"dit", "transformer", "w2">>}
Whole     == {<<"transformer", "vae">>, <<"vae", "transformer">>,
              <<"transformer", "unet">>, <<>>}
Some      == {<<"transformer">>, <<"vae">>, <<"transformer", "vae">>}

Plain == [gpus |-> 1, delay |-> FALSE, warmup |-> FALSE, strategies |-> {Resident},
          twoSided |-> TRUE, warmupSteps |-> 1, items |-> {}, sockets |-> FALSE,
          targets |-> {}, damages |-> 0]

MCDeployments ==
  {[Plain EXCEPT !.items = {"s1", "s2", "s3", "t1"}, !.delay = TRUE],
   [Plain EXCEPT !.items = {"s1", "s2", "lora"}, !.warmup = TRUE, !.gpus = 2],
   [Plain EXCEPT !.items = {"s1", "group", "image", "shutdown"}, !.warmup = TRUE,
                 !.delay = TRUE, !.sockets = TRUE],
   [Plain EXCEPT !.items = {"s1"}, !.warmup = TRUE,
                 !.strategies = Strategies({"resident", "vanilla"})],
   [Plain EXCEPT !.items = {"s1"}, !.warmup = TRUE, !.warmupSteps = 2,
                 !.strategies = Strategies({"vanilla"})],
   [Plain EXCEPT !.items = {"s1", "t1"}, !.twoSided = FALSE,
                 !.strategies = Strategies({"vanilla"})],
   [Plain EXCEPT !.items = {"up1", "up2"}, !.targets = Whole, !.damages = 1],
   [Plain EXCEPT !.items = {"up1", "up2"}, !.targets = Some, !.damages = 1],
   [Plain EXCEPT !.items = {"up1", "s1"}, !.targets = Whole,
                 !.strategies = {[Resident EXCEPT !["vae"] = "vanilla"]}]}
===============================================================================
