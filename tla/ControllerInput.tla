--------------------------- MODULE ControllerInput ---------------------------
(***************************************************************************)
(* The input manager (InputManager.cpp): what the runtime knows of the     *)
(* controllers and hands of the headset, which interaction profiles they   *)
(* make active, and what each profile's components read.  The input state  *)
(* is a record, so that the calls of the OpenXR layer (XrInput) can be     *)
(* stated over the state they read:                                        *)
(*   streaming        trackingReceiver_ is set                             *)
(*   profile          streamingControllerProfile_                          *)
(*   frame            controllerProfile_ names the Steam Frame             *)
(*   controllers, hands          the sides reported active                 *)
(*   buttons, rawButtons         buttonState_, frameButtonState_           *)
(*   touches                     touchState_                               *)
(*   trigger, grip, rawGrip, stick, pinch, grasp    per side               *)
(*   auto, states     the conformance automation's overrides               *)
(* An analog value is 0 at rest, 1 up to half, 2 beyond half; a stick's    *)
(* one modelled axis is signed.  Poses other than their source are left    *)
(* out.                                                                    *)
(***************************************************************************)
EXTENDS Integers, Sequences, TLC

CONSTANT FrameXbox       \* frameXboxLayout_: OXRSYS_FRAME_XBOX is set
ASSUME FrameXboxAssumption == FrameXbox \in BOOLEAN

Hands == {"left", "right"}

\* kOculusTouchProfile and so on, by their last part; "" is XR_NULL_PATH.
MetaProfiles == {"quest2", "touch_plus"}
NoProfile == ""

AtRest == [h \in Hands |-> 0]
NoInput ==
    [streaming |-> FALSE, profile |-> NoProfile, frame |-> FALSE,
     controllers |-> {}, hands |-> {}, buttons |-> {}, rawButtons |-> {}, touches |-> {},
     trigger |-> AtRest, grip |-> AtRest, rawGrip |-> AtRest, stick |-> AtRest,
     pinch |-> AtRest, grasp |-> AtRest,
     auto |-> [h \in Hands |-> [explicit |-> FALSE, active |-> FALSE, profile |-> NoProfile]],
     states |-> {}]

-------------------------------------------------------------------------------
(* The tracking receiver and its packets.                                  *)

\* SetTrackingReceiver(receiver), SetStreamingClientName(name): clients stand for the
\* profile that DetectStreamingControllerProfile finds in their name.
WithReceiver(i) == [i EXCEPT !.streaming = TRUE]
WithClient(i, client) == [i EXCEPT !.profile = client]

\* SetTrackingReceiver(nullptr): the buttons and the axes stay as they were.
WithoutReceiver(i) ==
    [i EXCEPT !.streaming = FALSE, !.controllers = {}, !.hands = {},
              !.profile = NoProfile, !.frame = FALSE, !.touches = {}]

FrameBits == {"frame_a", "frame_b", "frame_x", "frame_y", "dpad_up", "right_menu",
              "left_bumper", "right_bumper"}
\* ApplyFrameXboxLayout: each letter of the Frame on the Xbox button of that letter.
XboxOf == [b \in {"frame_a", "frame_b", "frame_x", "frame_y", "right_menu"} |->
              CASE b = "frame_a" -> "a" [] b = "frame_b" -> "x" [] b = "frame_x" -> "b"
                [] b = "frame_y" -> "y" [] OTHER -> "menu"]
Remapped(pk) == FrameXbox /\ pk.buttons \cap FrameBits # {}
LaidOutButtons(pk) ==
    IF Remapped(pk)
    THEN (pk.buttons \ {"a", "b", "x", "y"}) \cup {XboxOf[b] : b \in pk.buttons \cap DOMAIN XboxOf}
    ELSE pk.buttons
LaidOutGrip(pk) ==
    [h \in Hands |-> IF Remapped(pk) /\ (h \o "_bumper") \in pk.buttons THEN 2 ELSE pk.grip[h]]

\* UpdateFromStreaming.
WithPacket(i, pk) ==
    [i EXCEPT !.controllers = pk.controllers, !.hands = pk.hands, !.frame = pk.frame,
              !.buttons = LaidOutButtons(pk), !.rawButtons = pk.buttons, !.touches = pk.touches,
              !.trigger = pk.trigger, !.grip = LaidOutGrip(pk), !.rawGrip = pk.grip,
              !.stick = pk.stick, !.pinch = pk.pinch, !.grasp = pk.grasp]

\* The conformance automation: SetAutomationInteractionProfile, and the SetAutomation
\* functions for a component's value.
WithDevice(i, h, profile, active) ==
    [i EXCEPT !.auto[h] = [explicit |-> TRUE, active |-> active, profile |-> profile]]
WithState(i, s) ==
    [i EXCEPT !.states = {t \in @ : <<t.kind, t.hand, t.component>> # <<s.kind, s.hand, s.component>>}
                           \cup {s}]

-------------------------------------------------------------------------------
(* Which devices and profiles are active.                                  *)

ControllerActive(i, h) == i.streaming /\ h \in i.controllers
HandActive(i, h) == i.streaming /\ h \in i.hands
DeviceActive(i, h) ==
    IF i.auto[h].explicit THEN i.auto[h].active
                          ELSE HandActive(i, h) \/ ControllerActive(i, h)

\* GetCurrentInteractionProfileCandidates has one member at most.
DeviceProfile(i, h) ==
    CASE i.auto[h].explicit -> IF i.auto[h].active THEN i.auto[h].profile ELSE NoProfile
      [] ControllerActive(i, h) ->
            IF i.frame THEN "frame" ELSE IF i.profile = NoProfile THEN "touch" ELSE i.profile
      [] HandActive(i, h) -> "hand"
      [] OTHER -> NoProfile

\* GetActiveInteractionProfiles: the device's own profile, then those it can stand for.
Listed(p, on) == IF on THEN <<p>> ELSE <<>>
ActiveProfiles(i, h) ==
    LET own == DeviceProfile(i, h)
        fallback == ~i.auto[h].explicit
        controller == fallback /\ ControllerActive(i, h)
    IN Listed(own, own # NoProfile)
         \o Listed("touch", controller /\ own \in MetaProfiles \cup {"frame"})
         \o Listed("simple", controller)
         \o Listed("hand", fallback /\ HandActive(i, h) /\ own # "hand")

-------------------------------------------------------------------------------
(* What a component reads.                                                 *)

HandValues == {"pinch_ext/value", "grasp_ext/value", "aim_activate_ext/value"}
HandReady == {"pinch_ext/ready_ext", "grasp_ext/ready_ext", "aim_activate_ext/ready_ext"}
HandComponents == HandValues \cup HandReady \cup {"pinch_ext/pose", "poke_ext/pose", "grip_surface/pose"}

\* What the automation has set, in the map for values of that kind.
Overridden(i, kind, h, c) ==
    {s.value : s \in {t \in i.states : t.kind = kind /\ t.hand = h /\ t.component = c}}

\* The side a face button is on and the bit that reports it.
Face == [a |-> "right", b |-> "right", x |-> "left", y |-> "left"]
FaceClick(i, h, c) ==
    \E b \in DOMAIN Face : c \in {b \o "/click", b \o "/touch"} /\ Face[b] = h /\ b \in i.buttons

\* GetButtonClick, of a component with no override.
ButtonClick(i, h, c) ==
    \/ c = "menu/click" /\ "menu" \in i.buttons
    \/ c \in {"select/click", "trigger/click", "trigger/value"} /\ i.trigger[h] = 2
    \/ c = "trigger/touch" /\ i.trigger[h] > 0
    \/ c \in {"squeeze/click", "squeeze/value"} /\ i.grip[h] = 2
    \/ c = "dpad_up/click" /\ h = "left" /\ "dpad_up" \in i.buttons
    \/ c = "thumbstick/click" /\ (h \o "_stick") \in i.buttons
    \/ c = "thumbstick/touch" /\ i.stick[h] # 0
    \/ FaceClick(i, h, c)
    \/ c \in HandReady /\ HandActive(i, h)

\* GetFrameControllerComponent: the client's bit for each input of the Frame, by side.
FrameInput(h) ==
    LET side == [bumper |-> h \o "_bumper", squeeze |-> h \o "_grip", trigger |-> h \o "_trigger",
                 thumbstick |-> h \o "_stick"]
    IN side @@ IF h = "right"
               THEN [a |-> "frame_a", b |-> "frame_b", x |-> "frame_x", y |-> "frame_y",
                     menu |-> "right_menu"]
               ELSE [dpad_up |-> "dpad_up", view |-> "menu"]
FrameComponent(i, h, c) ==
    \/ c = "squeeze/value" /\ i.rawGrip[h] = 2
    \/ c = "trigger/value" /\ ButtonClick(i, h, c)
    \/ \E n \in DOMAIN FrameInput(h) :
          \/ c = n \o "/click" /\ FrameInput(h)[n] \in i.rawButtons
          \/ c = n \o "/touch" /\ FrameInput(h)[n] \in i.touches

\* GetBooleanComponentForProfile.
ProfileClick(i, h, c, p) ==
    CASE p = "hand" -> c \in HandReady /\ HandActive(i, h)
      [] p # "hand" /\ c \in HandComponents -> FALSE
      [] p = "frame" /\ c \notin HandComponents -> FrameComponent(i, h, c)
      [] OTHER -> ButtonClick(i, h, c)
BooleanComponent(i, h, c, p) ==
    LET set == Overridden(i, "bool", h, c)
    IN IF set = {} THEN ProfileClick(i, h, c, p) ELSE 2 \in set

\* GetTrackedPinchValue, GetTrackedGraspValue.
HandValue(i, h, c) ==
    IF ~HandActive(i, h) THEN 0 ELSE IF c = "grasp_ext/value" THEN i.grasp[h] ELSE i.pinch[h]

\* GetFloatComponentForProfile.
ProfileFloat(i, h, c, p) ==
    CASE p = "hand" /\ c \in HandValues -> HandValue(i, h, c)
      [] p # "hand" /\ c \in {"select/value", "trigger/value"} -> i.trigger[h]
      [] p # "hand" /\ c = "squeeze/value" -> IF p = "frame" THEN i.rawGrip[h] ELSE i.grip[h]
      [] p # "hand" /\ c = "thumbstick/x" -> i.stick[h]
      [] OTHER -> IF BooleanComponent(i, h, c, p) THEN 2 ELSE 0
FloatComponent(i, h, c, p) ==
    LET set == Overridden(i, "float", h, c)
    IN IF set = {} THEN ProfileFloat(i, h, c, p) ELSE CHOOSE v \in set : TRUE

\* GetVector2fComponentForProfile.
VectorComponent(i, h, c, p) ==
    LET set == Overridden(i, "vector", h, c)
    IN CASE set # {} -> CHOOSE v \in set : TRUE
         [] set = {} /\ p # "hand" /\ c = "thumbstick" -> i.stick[h]
         [] OTHER -> 0
=============================================================================
