-------------------------------- MODULE Vision --------------------------------
(***************************************************************************)
(* Images of a conversation: stored once, described by a model, answered.  *)
(*   src/vision/vision.service.ts                  analyze                 *)
(*   src/vision/vision-asset.service.ts            the vision_assets rows  *)
(*   src/vision/vision-analysis.service.ts         analyzeImage            *)
(*   src/vision/vision-image-validator.util.ts     the headers             *)
(* An image is what its header says: [kind, bytes, segments, chunk, width, *)
(* height]; two uploads of one image have one checksum.                    *)
(***************************************************************************)
EXTENDS Integers, Sequences, FiniteSets

CONSTANTS Selections,        \* the sequences of images uploaded
          Looks,             \* requests, each with its own user message
          Rooms,             \* conversations
          MaxFiles, MaxUploadBytes, MaxDimension, MaxAssets

(* The images of a selection, and what is read in them. *)
Images == UNION {{s[k] : k \in DOMAIN s} : s \in Selections}
Summaries == {i.name : i \in Images} \union {"none"}

ASSUME VisionConstants ==
    /\ \A s \in Selections : s \in Seq(Images)
    /\ "none" \notin Looks /\ MaxAssets \in Nat

VARIABLES assets,    \* the vision_assets rows
          looking    \* a call of analyze

visionVars == <<assets, looking>>

VisionSpaces == {"personal", "general", "logistiga", "piston", "code"}
NotLooking == [pc |-> "idle", room |-> "none", space |-> "none", files |-> <<>>, asset |-> 0,
               described |-> <<>>, used |-> <<>>]

Asset == [room : Rooms, space : VisionSpaces, image : Images, status : {"ready", "analyzed", "failed"},
          of : Summaries, message : Looks \union {"none"}]
Look(n) == [pc : {"idle", "find", "store", "describe", "mark", "fail", "turn", "attach", "done", "failed"},
            room : Rooms \union {"none"}, space : VisionSpaces \union {"none"}, files : Seq(Images),
            asset : 0..n, described : Seq(1..n), used : Seq(Summaries)]

VisionTypeOK ==
    /\ assets \in Seq(Asset) /\ Len(assets) <= MaxAssets
    /\ looking \in [Looks -> Look(Len(assets))]

VisionInit == assets = <<>> /\ looking = [r \in Looks |-> NotLooking]

-------------------------------------------------------------------------------
(* The headers.                                                              *)
ParsePng(img) == img.kind = "png" /\ img.bytes >= 24

IsStartOfFrame(marker) == marker \in 192..207 \ {196, 200, 204}

(* Segment by segment, as long as each is whole, to the first frame header. *)
ParseJpeg(img) ==
    LET n == Len(img.segments)
        offset[k \in 1..(n + 1)] == IF k = 1 THEN 2 ELSE offset[k - 1] + 2 + img.segments[k - 1].length
        Whole(k) == /\ offset[k] + 8 < img.bytes /\ img.segments[k].length >= 2
                    /\ offset[k] + 2 + img.segments[k].length <= img.bytes
    IN /\ img.kind = "jpeg" /\ img.bytes >= 4
       /\ \E k \in 1..n : IsStartOfFrame(img.segments[k].marker) /\ \A j \in 1..k : Whole(j)

ParseWebp(img) == img.kind = "webp" /\ img.bytes >= 30 /\ img.chunk \in {"VP8X", "VP8 ", "VP8L"}

ValidateVisionImage(img) == ParsePng(img) \/ ParseJpeg(img) \/ ParseWebp(img)

Acceptable(img) ==
    /\ img.bytes > 0 /\ img.bytes <= MaxUploadBytes /\ ValidateVisionImage(img)
    /\ img.width \in 1..MaxDimension /\ img.height \in 1..MaxDimension

-------------------------------------------------------------------------------

Throws(r) == looking' = [looking EXCEPT ![r].pc = "failed"]

(* The personal scope has one space; a professional one must be known. *)
NormalizeTargetSpace(scope, space) ==
    IF scope = "personal" THEN "personal"
    ELSE IF space \in VisionSpaces \ {"personal"} THEN space ELSE "none"

Analyze(r, room, scope, space, files) ==
    /\ looking[r].pc = "idle"
    /\ IF files = <<>> \/ Len(files) > MaxFiles \/ NormalizeTargetSpace(scope, space) = "none" THEN Throws(r)
       ELSE looking' = [looking EXCEPT ![r] =
                          [pc |-> "find", room |-> room, space |-> NormalizeTargetSpace(scope, space), files |-> files,
                           asset |-> 0, described |-> <<>>, used |-> <<>>]]
    /\ UNCHANGED assets

(* The next file, or the turn when there is none. *)
Next1(call, i) ==
    [pc |-> IF Tail(call.files) = <<>> THEN "turn" ELSE "find", room |-> call.room, space |-> call.space,
     files |-> Tail(call.files), asset |-> 0, described |-> Append(call.described, i),
     used |-> Append(call.used, assets'[i].of)]

(* Mutant: the same image of another conversation is reused. *)
SameImageAnywhere(r) ==
    {i \in DOMAIN assets : assets[i].image = Head(looking[r].files) /\ assets[i].space = looking[r].space}

SameImage(r) ==
    {i \in DOMAIN assets : /\ assets[i].image = Head(looking[r].files)
                           /\ assets[i].room = looking[r].room /\ assets[i].space = looking[r].space}

(* An asset already described is used as it is; another one is described anew. *)
FindAsset(r) ==
    /\ looking[r].pc = "find"
    /\ UNCHANGED assets
    /\ IF ~Acceptable(Head(looking[r].files)) THEN Throws(r)
       ELSE IF SameImage(r) = {} THEN looking' = [looking EXCEPT ![r].pc = "store"]
       ELSE \E i \in SameImage(r) :
              looking' = [looking EXCEPT ![r] =
                            IF assets[i].status = "analyzed" /\ assets[i].of # "none" THEN Next1(looking[r], i)
                            ELSE [looking[r] EXCEPT !.asset = i, !.pc = "describe"]]

(* The bytes are saved, then the row is created, whether or not another      *)
(* request created one meanwhile.                                            *)
StoreAsset(r) ==
    /\ looking[r].pc = "store" /\ Len(assets) < MaxAssets
    /\ assets' = Append(assets, [room |-> looking[r].room, space |-> looking[r].space,
                                 image |-> Head(looking[r].files), status |-> "ready", of |-> "none",
                                 message |-> "none"])
    /\ looking' = [looking EXCEPT ![r].asset = Len(assets'), ![r].pc = "describe"]

(* No provider, no adapter, or an error of the model: the asset has failed.  *)
AnalyzeImage(r) ==
    /\ looking[r].pc = "describe"
    /\ \E pc \in {"mark", "fail"} : looking' = [looking EXCEPT ![r].pc = pc]
    /\ UNCHANGED assets

(* The model may find nothing to say. *)
MarkAnalyzed(r) ==
    /\ looking[r].pc = "mark"
    /\ LET i == looking[r].asset IN
       \E summary \in {"none", "text"} :
         /\ assets' = [assets EXCEPT ![i].status = "analyzed",
                                     ![i].of = IF summary = "none" THEN "none" ELSE assets[i].image.name]
         /\ looking' = [looking EXCEPT ![r] = Next1(looking[r], i)]

(* The summary of an earlier success stays. *)
MarkFailed(r) ==
    /\ looking[r].pc = "fail"
    /\ assets' = [assets EXCEPT ![looking[r].asset].status = "failed"]
    /\ Throws(r)

(* handleMessage answers, with the notes on the images, or throws. *)
AnswerLook(r) ==
    /\ looking[r].pc = "turn"
    /\ \E pc \in {"attach", "failed"} : looking' = [looking EXCEPT ![r].pc = pc]
    /\ UNCHANGED assets

AttachToMessage(r) ==
    /\ looking[r].pc = "attach"
    /\ assets' = [i \in DOMAIN assets |->
                    IF \E k \in DOMAIN looking[r].described : looking[r].described[k] = i
                    THEN [assets[i] EXCEPT !.message = r] ELSE assets[i]]
    /\ looking' = [looking EXCEPT ![r].pc = "done"]

VisionNext ==
    \E r \in Looks :
        \/ \E room \in Rooms, scope \in {"personal", "professional"}, space \in {"general", "other"}, files \in Selections :
             Analyze(r, room, scope, space, files)
        \/ FindAsset(r) \/ StoreAsset(r) \/ AnalyzeImage(r) \/ MarkAnalyzed(r) \/ MarkFailed(r)
        \/ AnswerLook(r) \/ AttachToMessage(r)

VisionSpec == VisionInit /\ [][VisionNext]_visionVars

-------------------------------------------------------------------------------
(* What a turn tells the model is about the images it came with, in their    *)
(* order: every note is of an asset of this conversation and space, and says *)
(* nothing or what was read in that image.                                   *)
NotesOfOwnImages ==
    \A r \in Looks : \A k \in DOMAIN looking[r].described :
        LET a == assets[looking[r].described[k]] IN
        /\ a.room = looking[r].room /\ a.space = looking[r].space
        /\ looking[r].used[k] \in {"none", a.image.name}

(* An asset is shown with a message of its own conversation, and an answered *)
(* turn left every image attached to a message of the conversation, though   *)
(* two turns may share an asset.                                             *)
AttachedAtHome ==
    /\ \A i \in DOMAIN assets : assets[i].message # "none" => looking[assets[i].message].room = assets[i].room
    /\ \A r \in Looks : looking[r].pc = "done" =>
         \A k \in DOMAIN looking[r].described : assets[looking[r].described[k]].message # "none"

(* Only images with a sound header and within the limits are stored. *)
StoredIsAcceptable == \A i \in DOMAIN assets : Acceptable(assets[i].image)

(* What holds of images under concurrent requests. *)
VisionSafe == VisionTypeOK /\ NotesOfOwnImages /\ AttachedAtHome /\ StoredIsAcceptable

(* Why they hold: an asset keeps its image, conversation and space, and     *)
(* says what that image says; a request works on assets of its own place,   *)
(* and is over when messages carry its name.                                *)
LookInv == \A r \in Looks :
    /\ looking[r].pc \in {"find", "store", "describe", "mark", "fail"} =>
            looking[r].files # <<>> /\ looking[r].room \in Rooms /\ looking[r].space \in VisionSpaces
    /\ looking[r].pc = "store" => Acceptable(Head(looking[r].files))
    /\ looking[r].pc \in {"describe", "mark", "fail"} =>
            /\ looking[r].asset # 0
            /\ assets[looking[r].asset].room = looking[r].room /\ assets[looking[r].asset].space = looking[r].space
    /\ Len(looking[r].described) = Len(looking[r].used)
AssetInv == \A i \in DOMAIN assets :
    /\ assets[i].of \in {"none", assets[i].image.name}
    /\ assets[i].message # "none" => looking[assets[i].message].pc = "done"

VisionInv == LookInv /\ AssetInv /\ NotesOfOwnImages /\ AttachedAtHome /\ StoredIsAcceptable

-------------------------------------------------------------------------------
(* What the code does not keep. One asset per image of a conversation: two   *)
(* requests both find none.                                                  *)
OneAssetPerImage ==
    \A i, j \in DOMAIN assets :
        assets[i].room = assets[j].room /\ assets[i].space = assets[j].space /\ assets[i].image = assets[j].image => i = j

(* A described asset stays described: the failure of a second request is     *)
(* written over it.                                                          *)
DescribedStays == \A i \in DOMAIN assets : assets[i].of # "none" => assets[i].status = "analyzed"
===============================================================================
