---------------------------- MODULE PlaybackPlan ----------------------------
(***************************************************************************)
(* How one playback is decided and encoded: decidePlaybackMethod           *)
(* (packages/ffmpeg/src/decision.ts), the encoder choice of                *)
(* device-profile.ts, the hardware detection and flags of hwaccel.ts, and  *)
(* the command lines of remux.ts and hls.ts.  Operators only: the          *)
(* modules EncodeFallback and PlaybackLadder run them.                     *)
(*                                                                         *)
(* A scanned file is [format, video, ten, tracks, subtitles, width, hdr]:  *)
(* ffprobe's format names, ten for a 10-bit source, tracks as a sequence   *)
(* of [codec, default], for each subtitle track whether it has to be       *)
(* burned in.  A profile is [containers, videos, audios, hdr, burn,        *)
(* direct, stream]; its codecs are sequences, in order of preference.      *)
(* Widths and the caps of a request are 1 for small, 2 for the encode      *)
(* ceiling and 3 for anything beyond it.                                   *)
(***************************************************************************)
EXTENDS Integers, SequencesExt

Ceiling == 2
NoCap   == 3

(* normalizeDeviceProfile: an encode always has caps. *)
Normalized(cap) == IF cap = NoCap THEN Ceiling ELSE cap

(* normalizeContainer: the first name with an alias. *)
Alias == [matroska |-> "mkv", webm |-> "webm", mov |-> "mp4", mp4 |-> "mp4", m4a |-> "mp4"]

Container(format) ==
  LET known == SelectSeq(format, LAMBDA n : n \in DOMAIN Alias) IN
  IF known = <<>> THEN Head(format) ELSE Alias[Head(known)]

(* buildCandidateInput: the audio track asked for, or the default one, or   *)
(* the first (0 asks for none); what the decision looks at.                *)
Track(tracks, asked) ==
  IF asked \in DOMAIN tracks THEN asked
  ELSE LET marked == {i \in DOMAIN tracks : tracks[i].default}
           from   == IF marked = {} THEN DOMAIN tracks ELSE marked
       IN CHOOSE i \in from : \A j \in from : i <= j

Candidate(row, track, subtitle) ==
  [container |-> Container(row.format), video |-> row.video, ten |-> row.ten,
   audio |-> row.tracks[Track(row.tracks, track)].codec, width |-> row.width,
   hdr |-> row.hdr, burn |-> subtitle \in DOMAIN row.subtitles /\ row.subtitles[subtitle]]

Lists(seq, e) == \E i \in DOMAIN seq : seq[i] = e

(* decidePlaybackMethod.  broken is what clients reported of the file. *)
VideoOk(file, profile, broken) ==
  /\ ~broken.video
  /\ Lists(profile.videos, IF file.video = "hevc" /\ file.ten THEN "hevc10"
                           ELSE file.video)

AudioOk(file, profile, broken) == ~broken.audio /\ Lists(profile.audios, file.audio)
ToneMapped(file, profile) == file.hdr /\ ~profile.hdr
BurnRequired(file, profile) == file.burn \/ profile.burn

Copyable(file, profile, cap, broken) ==
  /\ VideoOk(file, profile, broken)
  /\ file.width <= cap
  /\ ~ToneMapped(file, profile) /\ ~BurnRequired(file, profile)

Method(file, profile, cap, broken) ==
  IF /\ profile.direct /\ file.container \in profile.containers
     /\ Copyable(file, profile, cap, broken) /\ AudioOk(file, profile, broken)
  THEN "DIRECT_PLAY"
  ELSE IF profile.stream /\ Copyable(file, profile, cap, broken) THEN "REMUX"
  ELSE "TRANSCODE"

-----------------------------------------------------------------------------
(* hwaccel.ts: what a host offers, and the method "auto" or a named request *)
(* resolves to. A host is [devices, encoders, scaleNpp, cuvid].            *)
Hardware  == {"nvenc", "qsv", "vaapi"}
Codecs    == {"h264", "hevc", "vp9", "av1"}
Gate      == "h264"
HwCodecs(method) == IF method = "nvenc" THEN Codecs \ {"vp9"} ELSE Codecs

Usable(host, method) == method \in host.devices /\ <<method, Gate>> \in host.encoders

Preference == <<"nvenc", "qsv", "vaapi">>

Detected(host, requested) ==
  LET usable == {i \in DOMAIN Preference :
                   /\ requested \in {"auto", Preference[i]}
                   /\ Usable(host, Preference[i])}
  IN IF usable = {} THEN "none" ELSE Preference[Min(usable)]

(* pickVideoEncoder: an encoder is its codec and what it runs on. *)
HwEncoder(host, hw, codec) ==
  hw # "none" /\ codec \in HwCodecs(hw) /\ <<hw, codec>> \in host.encoders

Encoder(host, hw, profile) ==
  LET wanted == SelectSeq([i \in DOMAIN profile.videos |->
                             IF profile.videos[i] = "hevc10" THEN "hevc"
                             ELSE profile.videos[i]],
                          LAMBDA c : c \in Codecs)
      codec  == IF wanted = <<>> THEN "h264" ELSE Head(wanted)
  IN [codec |-> codec,
      on    |-> IF wanted # <<>> /\ HwEncoder(host, hw, codec) THEN hw ELSE "cpu"]

AudioEncoder(profile) ==
  LET known == SelectSeq(profile.audios, LAMBDA c : c \in {"aac", "mp3", "opus", "ac3", "flac"})
  IN IF known = <<>> THEN "aac" ELSE Head(known)

-----------------------------------------------------------------------------
(* Mutant: hardware is active, so the encoder counts as a hardware one. *)
ActiveIsEnough(hw, encoder) == hw # "none"

(* isHwEncoder: the chosen encoder is this method's own. *)
OwnEncoder(hw, encoder) == hw # "none" /\ encoder.on = hw

(* NVENC_SOFTWARE_FALLBACK. *)
Software(encoder) == [encoder EXCEPT !.on = "cpu"]

(* buildFfmpegArgs: where frames are decoded, the filters they pass, and   *)
(* the encoder.  A filter names the memory it reads and the one it writes. *)
Filter(name, in, out) == [name |-> name, in |-> in, out |-> out]
OnCpu(name) == <<Filter(name, "system", "system")>>

(* hwEncodeFilterTail. *)
Upload(hw) == IF hw \in {"vaapi", "qsv"}
              THEN <<Filter("format", "system", "system"),
                     Filter("hwupload", "system", hw)>>
              ELSE <<>>

(* Which of nvenc's paths the frames take: resident stays in GPU memory,    *)
(* cuvid decodes 10-bit HEVC with the one decoder that converts it right,  *)
(* unsafe has to leave the GPU for that source.                            *)
Setup(host, hw, file, profile) ==
  LET encoder  == Encoder(host, hw, profile)
      own      == OwnEncoder(hw, encoder)
      tone     == ToneMapped(file, profile)
      resident == own /\ hw = "nvenc" /\ host.scaleNpp /\ ~tone /\ ~file.burn
      tenHevc  == hw = "nvenc" /\ file.video = "hevc" /\ file.ten
      cuvid    == resident /\ tenHevc /\ host.cuvid
  IN [encoder |-> encoder, own |-> own, tone |-> tone, resident |-> resident,
      cuvid |-> cuvid, unsafe |-> tenHevc /\ ~cuvid]

DecodedOn(setup, hw) ==
  IF hw = "none" \/ setup.unsafe THEN "cpu"
  ELSE IF setup.cuvid THEN "cuvid"
  ELSE IF setup.resident THEN "cuda" ELSE "download"

(* hls.ts puts the upload at the end of the chain, and a burned-in subtitle *)
(* behind it, with the upload again.                                       *)
Filters(setup, hw, file) ==
  LET tail  == IF setup.own /\ ~setup.unsafe THEN Upload(hw) ELSE <<>>
      chain == (IF setup.tone THEN OnCpu("tonemap") ELSE <<>>)
               \o (IF setup.cuvid
                   THEN OnCpu("format") \o <<Filter("hwupload_cuda", "system", "cuda")>>
                   ELSE <<>>)
               \o (IF setup.resident THEN <<Filter("scale_npp", "cuda", "cuda")>>
                   ELSE OnCpu("scale") \o OnCpu("format"))
               \o tail
  IN IF file.burn THEN chain \o OnCpu("subtitles") \o tail ELSE chain

Transcode(host, hw, file, profile) ==
  LET setup == Setup(host, hw, file, profile)
      onHw  == setup.own /\ ~setup.unsafe
  IN [decode  |-> DecodedOn(setup, hw),
      filters |-> Filters(setup, hw, file),
      encoder |-> IF setup.unsafe /\ setup.own THEN Software(setup.encoder)
                  ELSE setup.encoder,
      quality |-> IF onHw THEN hw ELSE "cpu",
      device  |-> IF onHw /\ hw \in {"vaapi", "qsv"} THEN hw ELSE "none"]

(* What ffmpeg makes of it: every filter reads the memory its input is in, *)
(* an upload needs its device, and the encoder takes what comes out.       *)
Before(plan, i) == IF i > 1 THEN plan.filters[i - 1].out
                   ELSE IF plan.decode = "cuda" THEN "cuda" ELSE "system"

Takes(encoder) == CASE encoder.on = "cpu"   -> {"system"}
                    [] encoder.on = "nvenc" -> {"system", "cuda"}
                    [] OTHER                -> {encoder.on}

Fits(plan) ==
  /\ \A i \in DOMAIN plan.filters : plan.filters[i].in = Before(plan, i)
  /\ Before(plan, Len(plan.filters) + 1) \in Takes(plan.encoder)
  /\ plan.quality = plan.encoder.on
  /\ \A i \in DOMAIN plan.filters :
       plan.filters[i].name = "hwupload" => plan.device = plan.filters[i].out

(* The plan of a 10-bit HEVC source whose frames nvenc's conversions spoil. *)
Spoiled(plan, hw, file) ==
  /\ hw = "nvenc" /\ file.video = "hevc" /\ file.ten
  /\ plan.decode \in {"download", "cuda"}

-----------------------------------------------------------------------------
(* buildRemuxArgs: the audio is copied when MP4 can carry it and nobody    *)
(* reported it broken.                                                     *)
Mp4Safe == {"aac", "mp3", "opus", "flac", "pcm_s16le"}

RemuxCopiesAudio(file, broken) == ~broken.audio /\ file.audio \in Mp4Safe

(* What a client is sent. *)
Stream(method, file, profile, broken) ==
  CASE method = "DIRECT_PLAY" ->
         [container |-> file.container, video |-> file.video, audio |-> file.audio,
          sameVideo |-> TRUE, sameAudio |-> TRUE]
    [] method = "REMUX" ->
         [container |-> "mp4", video |-> file.video,
          audio |-> IF RemuxCopiesAudio(file, broken) THEN file.audio ELSE "aac",
          sameVideo |-> TRUE, sameAudio |-> RemuxCopiesAudio(file, broken)]
    [] OTHER ->
         [container |-> "hls",
          video |-> LET known == SelectSeq(profile.videos, LAMBDA c : c \in Codecs)
                    IN IF known = <<>> THEN "h264" ELSE Head(known),
          audio |-> AudioEncoder(profile), sameVideo |-> FALSE, sameAudio |-> FALSE]
=============================================================================
