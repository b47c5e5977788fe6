------------------------------ MODULE MCXrInput ------------------------------
(***************************************************************************)
(* An application with a game set, whose "jump" is read for both hands     *)
(* together, and a menu set, whose "grab" is read for the right hand.      *)
(***************************************************************************)
EXTENDS XrInput

MCSetOf == [jump |-> "game", grab |-> "game"]
MCTypeOf == [jump |-> "bool", grab |-> "float"]
MCPathsOf == [jump |-> {}, grab |-> {"right"}]

Binds(action, hand, component) == [action |-> action, hand |-> hand, component |-> component]
MCSuggestions ==
    {[profile |-> "touch",
      bindings |-> <<Binds("jump", "right", "b/click"), Binds("jump", "left", "squeeze/click"),
                     Binds("grab", "right", "squeeze/value")>>],
     [profile |-> "frame",
      bindings |-> <<Binds("jump", "right", "a/click"), Binds("grab", "right", "squeeze/value")>>],
     [profile |-> "hand",
      bindings |-> <<Binds("jump", "right", "pinch_ext/ready_ext"),
                     Binds("grab", "right", "pinch_ext/value")>>]}
MCGroups == {{}, {"menu"}}

Quiet == [controllers |-> {}, hands |-> {}, frame |-> FALSE, buttons |-> {}, touches |-> {},
          trigger |-> AtRest, grip |-> AtRest, stick |-> AtRest, pinch |-> AtRest, grasp |-> AtRest,
          bounds |-> TRUE]
MCPackets ==
    {\* The Frame's, with the X and the A of its right hand pressed, and one squeezed.
     [Quiet EXCEPT !.controllers = {"right"}, !.frame = TRUE, !.buttons = {"frame_x", "b"},
                   !.grip["right"] = 2],
     \* One controller laid down, its hand pinching.
     [Quiet EXCEPT !.controllers = {"left"}, !.hands = {"right"}, !.grip["left"] = 2,
                   !.pinch["right"] = 1]}

MCDevices == {[hand |-> "right", profile |-> "touch", active |-> TRUE]}
MCStates == {[kind |-> "float", hand |-> "right", component |-> "squeeze/value", value |-> 2]}
===============================================================================
