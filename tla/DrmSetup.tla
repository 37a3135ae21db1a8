-------------------------------- MODULE DrmSetup -------------------------------
(***************************************************************************)
(* Mode setting at start-up (create_drm_device, modeset_setup_dev and      *)
(* modeset_find_crtc of winsys_drm.c): which mode, encoder and CRTC the    *)
(* chosen connector gets, and the size the window then has.                *)
(*                                                                         *)
(* The identifiers of encoders and CRTCs are numbers in the order of the   *)
(* kernel's lists; 0 is no encoder or CRTC, as in the kernel's replies.    *)
(***************************************************************************)
EXTENDS Naturals, Sequences

CONSTANTS
  Connector, Encoder, Crtc,
  Chosen,      (* the connector of EGLWINSYS_DRM_CONNECTOR_IDX             *)
  Size,        (* the sizes a mode or the window may have                  *)
  Refresh,     (* refresh rates                                            *)
  MaxModes,
  NoMode       (* the mode of a modeset_dev that calloc has cleared        *)

ASSUME IdAssumption == Encoder \subseteq Nat \ {0} /\ Crtc \subseteq Nat \ {0}
ASSUME ChosenAssumption == Chosen \in Connector
ASSUME RefreshAssumption == Refresh \subseteq Nat
ASSUME NoModeAssumption == NoMode \notin [size : Size, refresh : Refresh]

Mode == [size : Size, refresh : Refresh]

VARIABLES
  (* What the kernel says of connectors and encoders.                      *)
  usable,          (* connectors that are connected and have modes         *)
  encoder_id,      (* the current encoder of each connector                *)
  crtc_id,         (* the current CRTC of each encoder                     *)
  encoders,        (* the encoders the chosen connector can have           *)
  possible_crtcs,  (* the CRTCs each encoder can have                      *)
  modes,           (* the modes of the chosen connector                    *)
  windowed,        (* whether option -s gives a size                       *)
  wanted,          (* that size, or the default: what win is to begin with *)
  (* The program.                                                          *)
  pc,              (* "parse", "mode", "crtc", "done" or "failed"          *)
  modeset_list,    (* the CRTC of every connector listed                   *)
  win,             (* the size of the window                               *)
  dev_mode, dev_size, encd, crtc

kernelVars == <<usable, encoder_id, crtc_id, encoders, possible_crtcs, modes>>
optionVars == <<windowed, wanted>>
devVars    == <<dev_mode, dev_size, encd, crtc>>
vars == <<kernelVars, optionVars, pc, modeset_list, win, devVars>>

ModeLists == UNION {[1..n -> Mode] : n \in 1..MaxModes}

(* An encoder drives, and a connector has, only what it can.               *)
KernelInit ==
  /\ usable \in SUBSET Connector
  /\ possible_crtcs \in [Encoder -> SUBSET Crtc]
  /\ crtc_id \in {f \in [Encoder -> Crtc \union {0}] :
                    \A e \in Encoder : f[e] \in possible_crtcs[e] \union {0}}
  /\ encoders \in SUBSET Encoder
  /\ encoder_id \in {f \in [Connector -> Encoder \union {0}] :
                       f[Chosen] \in encoders \union {0}}
  /\ modes \in ModeLists

Init ==
  /\ KernelInit
  /\ windowed \in BOOLEAN /\ wanted \in Size
  /\ pc = "parse" /\ modeset_list = <<>>
  /\ win = wanted
  /\ dev_mode = NoMode /\ dev_size = NoMode /\ encd = 0 /\ crtc = 0

--------------------------------------------------------------------------------
(* The connectors are listed with the CRTC they have now.                  *)
CurrentCrtc(conn) == IF encoder_id[conn] = 0 THEN 0 ELSE crtc_id[encoder_id[conn]]

ParseConnectors ==
  /\ pc = "parse"
  /\ modeset_list' = [conn \in usable |-> CurrentCrtc(conn)]
  /\ IF Chosen \in usable
     THEN pc' = "mode" /\ crtc' = CurrentCrtc(Chosen)
     ELSE pc' = "failed" /\ UNCHANGED crtc
  /\ UNCHANGED <<kernelVars, optionVars, win, dev_mode, dev_size, encd>>

(* modeset_setup_dev, its choice of a mode: of those of the window's size  *)
(* the first with the highest refresh rate above 0; without any of that    *)
(* size the first mode, and its size becomes the window's.                 *)
Matching == {i \in DOMAIN modes : windowed /\ modes[i].size = win}

Fastest == {i \in Matching : /\ modes[i].refresh > 0
                             /\ \A j \in Matching : modes[j].refresh <= modes[i].refresh
                             /\ \A j \in Matching : j < i => modes[j].refresh < modes[i].refresh}

WinKept == win
WinOfFirstMode == modes[1].size

SelectMode ==
  /\ pc = "mode"
  /\ IF Matching = {}
     THEN dev_mode' = modes[1] /\ dev_size' = modes[1].size /\ win' = WinOfFirstMode
     ELSE /\ IF Fastest = {}
             THEN UNCHANGED <<dev_mode, dev_size>>
             ELSE \E i \in Fastest : dev_mode' = modes[i] /\ dev_size' = win
          /\ UNCHANGED win
  /\ pc' = "crtc"
  /\ UNCHANGED <<kernelVars, optionVars, modeset_list, encd, crtc>>

(* modeset_find_crtc.  The CRTC the connector has now is used again unless *)
(* another connector of the list has it, too.                              *)
UsedBy(c, conns) == \E conn \in conns : modeset_list[conn] = c

SharedIgnored(c) == FALSE
SharedWithSelf(c) == UsedBy(c, usable)
Shared(c) == UsedBy(c, usable \ {Chosen})

HasCrtc == encoder_id[Chosen] # 0 /\ crtc_id[encoder_id[Chosen]] # 0
Reusable == HasCrtc /\ ~Shared(crtc_id[encoder_id[Chosen]])

ReuseCrtc ==
  /\ pc = "crtc" /\ Reusable
  /\ encd' = encoder_id[Chosen] /\ crtc' = crtc_id[encoder_id[Chosen]]
  /\ pc' = "done"
  /\ UNCHANGED <<kernelVars, optionVars, modeset_list, win, dev_mode, dev_size>>

(* Otherwise the first CRTC that no connector of the list has, of the      *)
(* first encoder that can have one.                                        *)
Unused(e) == {c \in possible_crtcs[e] : ~UsedBy(c, usable)}

Able == {e \in encoders : Unused(e) # {}}
FirstOf(S) == {i \in S : \A j \in S : i <= j}

SearchCrtc ==
  /\ pc = "crtc" /\ ~Reusable
  /\ \E e \in FirstOf(Able) : encd' = e /\ crtc' \in FirstOf(Unused(e))
  /\ pc' = "done"
  /\ UNCHANGED <<kernelVars, optionVars, modeset_list, win, dev_mode, dev_size>>

NoCrtc ==
  /\ pc = "crtc" /\ ~Reusable /\ Able = {}
  /\ pc' = "failed"
  /\ UNCHANGED <<kernelVars, optionVars, modeset_list, win, devVars>>

Next == ParseConnectors \/ SelectMode \/ ReuseCrtc \/ SearchCrtc \/ NoCrtc

Spec == Init /\ [][Next]_vars

--------------------------------------------------------------------------------
(* A CRTC and an encoder of the kernel's, and a mode of the connector's,   *)
(* once they are chosen.                                                   *)
TypeOK ==
  /\ pc \in {"parse", "mode", "crtc", "done", "failed"}
  /\ pc # "parse" => modeset_list \in [usable -> Crtc \union {0}]
  /\ win \in Size /\ dev_size \in Size \union {NoMode}
  /\ dev_mode \in {modes[i] : i \in DOMAIN modes} \union {NoMode}
  /\ encd \in Encoder \union {0} /\ crtc \in Crtc \union {0}
  /\ pc = "done" => encd # 0 /\ crtc # 0

(* "already used for another connector -> SKIP": no connector of the list  *)
(* loses its CRTC to the chosen one.                                       *)
CrtcExclusive == pc = "done" => ~UsedBy(crtc, usable \ {Chosen})

(* The connector can have the encoder and the encoder the CRTC.            *)
CrtcSuitable == pc = "done" => encd \in encoders /\ crtc \in possible_crtcs[encd]

(* "cannot find suitable CRTC": set-up fails only when every CRTC that the *)
(* chosen connector could have is with another one.  Leaving out those of  *)
(* the whole list, its own among them, skips none.                         *)
FoundWhenFree ==
  pc = "failed" /\ Chosen \in usable =>
    \A e \in encoders : \A c \in possible_crtcs[e] : UsedBy(c, usable \ {Chosen})

(* The window, whose buffers are scanned out, has the size of the mode,    *)
(* unless the only modes of its size have no refresh rate.  A window of a  *)
(* size the connector has a mode for keeps it and gets the fastest mode.   *)
WindowIsMode ==
  pc = "done" =>
    /\ \/ dev_mode # NoMode /\ win = dev_mode.size /\ dev_size = dev_mode.size
       \/ dev_mode = NoMode /\ windowed
            /\ \A i \in DOMAIN modes : modes[i].size = wanted => modes[i].refresh = 0
    /\ windowed => \A i \in DOMAIN modes :
         modes[i].size = wanted /\ modes[i].refresh > 0 =>
           dev_mode # NoMode /\ dev_mode.size = wanted /\ dev_mode.refresh >= modes[i].refresh

================================================================================
