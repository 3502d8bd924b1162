----------------------------- MODULE MediaEvaluator -----------------------------
(***************************************************************************)
(* The checks an artifact passes before a human sees it (packages/         *)
(* evaluator/src/index.ts): of its bytes, of what ffprobe says of it, and  *)
(* of two runs of ffmpeg.  The first failed check names the failure.       *)
(*                                                                         *)
(* A clip is a record of what it is:                                       *)
(*   bytes      "whole" or "empty"                                         *)
(*   sha, size  the bytes are those the artifact's row was written of      *)
(*   container  the family of formats                                      *)
(*   video      there is a video stream; width, height and frames per      *)
(*              second <<numerator, denominator>> are the stream's         *)
(*   duration   in ticks                                                   *)
(*   decodes    it can be decoded without errors                           *)
(*   says       what the detectors of black and frozen pictures print      *)
(***************************************************************************)
EXTENDS Integers, Sequences, FiniteSetsExt

Ticks == 2400    \* a second; 24 frames of 100 ticks, and hundredths of 24

Verdict(b) == IF b THEN "passed" ELSE "failed"

(* The entries of f, and those of g that f does not have. *)
Over(f, g) == [x \in DOMAIN f \cup DOMAIN g |-> IF x \in DOMAIN f THEN f[x] ELSE g[x]]

Distance(a, b) == IF a < b THEN b - a ELSE a - b

(* What the runs of the tools came to, each a process with an exit code    *)
(* and a timeout of its own: ffprobe answered and its answer was read      *)
(* whole, ffmpeg got through the decoding, it got through the analysis of  *)
(* the motion, and what was read of the detectors' output.  The process    *)
(* runner resolves at the child's exit, when its pipes may hold more.      *)
ToolRuns(clip) ==
  [json : BOOLEAN, decoded : BOOLEAN, analysed : BOOLEAN, says : SUBSET clip.says]
ReadWhole(clip) == [json |-> TRUE, decoded |-> TRUE, analysed |-> TRUE, says |-> clip.says]

BytesChecks(clip) ==
  [ file_readable |-> Verdict(clip.bytes # "empty"),
    checksum |-> Verdict(clip.sha),
    byte_size |-> Verdict(clip.size) ]

(* Mutant: a clip is too short or not, and never too long. *)
LastsLongEnough(duration, expected) == expected.duration - duration <= expected.tolerance

Lasts(duration, expected) == Distance(duration, expected.duration) <= expected.tolerance

(* Within half a frame per second; no denominator, no frame rate. *)
RunsAt(rate, fps) == rate[2] # 0 /\ 2 * Distance(rate[1], fps * rate[2]) <= rate[2]

(* An empty or unreadable answer of ffprobe has no format and no streams;  *)
(* a file without a video stream has the duration of its container.        *)
ProbeChecks(clip, json, expected) ==
  LET probed == json /\ clip.bytes # "empty"
      video == probed /\ clip.video
  IN [ container |-> Verdict(probed /\ clip.container = "mp4"),
       video_stream |-> Verdict(video),
       dimensions |-> Verdict(/\ video
                              /\ clip.width = expected.width
                              /\ clip.height = expected.height),
       duration |-> Verdict(probed /\ Lasts(clip.duration, expected)),
       frame_rate |-> Verdict(video /\ RunsAt(clip.rate, expected.fps)),
       audio |-> IF probed /\ clip.audio THEN "passed" ELSE "not_applicable" ]

(* hasMotionEvidence *)
HasMotionEvidence(says) ==
  says \cap {"black_duration", "freeze_duration", "freeze_start", "static"} = {}

(* Two runs of ffmpeg, one after the other: the second is made and judged  *)
(* whatever has become of the first.                                       *)
FfmpegChecks(clip, read) ==
  LET content == clip.bytes # "empty" IN
  [ decoder |-> Verdict(content /\ clip.decodes /\ read.decoded),
    motion |-> Verdict(content /\ read.analysed /\ HasMotionEvidence(read.says)) ]

(* The file could not be written for the tools: no probe, no decoder. *)
Uninspected == [container |-> "failed", decoder |-> "failed", motion |-> "failed"]

Failures ==
  << <<"file_readable", "MEDIA_NOT_FOUND">>, <<"checksum", "MEDIA_CHECKSUM_MISMATCH">>,
     <<"byte_size", "MEDIA_SIZE_MISMATCH">>, <<"container", "MEDIA_INVALID_CONTAINER">>,
     <<"video_stream", "MEDIA_MISSING_VIDEO">>, <<"dimensions", "MEDIA_INVALID_DIMENSIONS">>,
     <<"duration", "MEDIA_INVALID_DURATION">>, <<"frame_rate", "MEDIA_INVALID_FRAME_RATE">>,
     <<"decoder", "MEDIA_DECODE_FAILED">>, <<"motion", "MEDIA_BLACK_OR_STATIC">> >>

Failed(checks, name) == name \in DOMAIN checks /\ checks[name] = "failed"

(* firstFailureCode *)
FirstFailureCode(checks) ==
  LET failed == {i \in DOMAIN Failures : Failed(checks, Failures[i][1])}
  IN IF failed = {} THEN "none" ELSE Failures[Min(failed)][2]

(* MediaEvaluator.evaluate; written says that the tools got their file. *)
Evaluation(clip, expected, written, read) ==
  LET inspected == IF written THEN Over(ProbeChecks(clip, read.json, expected),
                                        FfmpegChecks(clip, read))
                   ELSE Uninspected
      checks == Over(BytesChecks(clip), inspected)
      code == FirstFailureCode(checks)
  IN [ status |-> IF code = "none" THEN "passed" ELSE "failed",
       checks |-> checks, code |-> code ]
================================================================================
