------------------------------ MODULE MCOptions ------------------------------
(***************************************************************************)
(* Options for TLC: a smaller and a larger model, and for each option      *)
(* values in and out of its constraint.                                    *)
(***************************************************************************)
EXTENDS Options

MCModels == {[width |-> 300, height |-> 400, res_min |-> 100, res_max |-> 600]}

MCOffers ==
    [o \in Options |->
        CASE o \in Switches -> BOOLEAN
          [] o = "source" -> {"adf", "flatbed"}
          [] o = "mode" -> {"color", "bw", Other}
          [] o = "binding" -> {"rightleft", "top"}
          [] o = "bgelm" -> {Other}
          [] o = "resolution" -> {75}
          [] o = "edgerange" -> {130}
          [] o = "tl_x" -> {300}
          [] o = "br_x" -> {100}
          [] o = "tl_y" -> {200}
          [] o = "br_y" -> {100}]
=============================================================================
