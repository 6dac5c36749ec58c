------------------------------- MODULE Options -------------------------------
(***************************************************************************)
(* The options of an open device: the Option objects of a DeviceBaseImpl,  *)
(* sane_control_option on them, the switches between them, the MODELINFO   *)
(* exchange that gives them their ranges, and what sane_start and          *)
(* sane_get_parameters make of their values.                               *)
(*                                                                         *)
(* Lengths are in mm, resolutions in dpi; every SANE_Fixed a frontend      *)
(* passes is a whole number (quant is 1).  The level of background         *)
(* elimination stands for the options that nothing switches and that go    *)
(* into the request as they are (sharpness, font smoothing, moire          *)
(* elimination).  A call that control_option refuses changes nothing and   *)
(* is no action.                                                           *)
(***************************************************************************)
EXTENDS Integers, Sequences

CONSTANTS
    Other,          \* a string that is in no list of the backend
    Offers,         \* bound: the values a frontend passes, by option
    Models          \* bound: the answers to MODELINFO

VARIABLES
    opened,         \* configure has succeeded
    val,            \* Option::val, by option
    settable,       \* the options with SANE_CAP_SOFT_SELECT
    loaded,         \* Option::loaded
    geometry,       \* the ranges of the corners and of the resolution
    liberties       \* the liberties the frontend took so far: to set an option
                    \* that is not settable ("hard"), to have one set that is
                    \* not SANE_CAP_AUTOMATIC ("auto"), to pass a value that
                    \* the constraint excludes ("value")

optionVars == <<opened, val, settable, loaded, geometry, liberties>>

-----------------------------------------------------------------------------
(* The options                                                             *)

\* enum device_options, in its order.
OptionList == <<"source", "mode", "resolution", "duplex", "binding", "bgelm",
                "edge", "edgerange", "tl_x", "tl_y", "br_x", "br_y">>

Options == {OptionList[i] : i \in 1 .. Len(OptionList)}
Switches == {"duplex", "edge"}
Lists == [source |-> {"auto", "flatbed", "adf"},
          mode |-> {"color", "gray", "bw"},
          binding |-> {"rightleft", "top"},
          bgelm |-> {"0", "1", "2", "3", "4", "5", "6"}]
Choices == {"source", "mode", "binding", "bgelm"}
Corners == {"tl_x", "tl_y", "br_x", "br_y"}
Quantities == {"resolution", "edgerange"} \cup Corners

Model == [width : Nat, height : Nat, res_min : Nat, res_max : Nat]

\* What an object is constructed with, and what configure starts from.
DefaultModel == [width |-> 210, height |-> 297, res_min |-> 50, res_max |-> 1200]

Value(o) == CASE o \in Switches -> BOOLEAN
              [] o \in Choices -> Lists[o] \cup {Other}
              [] o \in Quantities -> Nat

ASSUME OptionsAssumption ==
    /\ Other \notin UNION {Lists[o] : o \in Choices}
    /\ \A o \in Options : \A v \in Offers[o] : v \in Value(o)
    /\ Models \subseteq Model

\* The ranges of the quantities.
Lowest(o) == CASE o = "resolution" -> geometry.res_min
               [] o = "edgerange" -> 5
               [] OTHER -> 0
Highest(o) == CASE o = "resolution" -> geometry.res_max
                [] o = "edgerange" -> 50
                [] o \in {"tl_x", "br_x"} -> geometry.width
                [] o \in {"tl_y", "br_y"} -> geometry.height

\* What the constraint of an option allows.
Allowed(o) == CASE o \in Switches -> BOOLEAN
                [] o \in Choices -> Lists[o]
                [] o \in Quantities -> Lowest(o) .. Highest(o)

\* Mutation: the mode asks for its options to be read again, not for the
\* parameters.
Info_ModeOptionsOnly(o) == CASE o \in {"mode", "source"} \cup Switches -> {"INEXACT", "RELOAD_OPTIONS"}
                             [] o \in {"resolution"} \cup Corners -> {"RELOAD_PARAMS"}
                             [] OTHER -> {}

\* infoval: what a SANE_ACTION_SET_VALUE tells the frontend.
Info(o) == CASE o = "mode" -> {"INEXACT", "RELOAD_OPTIONS", "RELOAD_PARAMS"}
             [] o \in {"source"} \cup Switches -> {"INEXACT", "RELOAD_OPTIONS"}
             [] o \in {"resolution"} \cup Corners -> {"RELOAD_PARAMS"}
             [] OTHER -> {}

-----------------------------------------------------------------------------
(* The calls                                                               *)

OptionsInit ==
    /\ opened = FALSE
    /\ val = [source |-> "auto", mode |-> "color", resolution |-> 50,
              duplex |-> FALSE, binding |-> "rightleft", bgelm |-> "0",
              edge |-> FALSE, edgerange |-> 5,
              tl_x |-> 0, tl_y |-> 0, br_x |-> 0, br_y |-> 0]
    /\ settable = Options \ {"binding", "edgerange"}
    /\ loaded = {}
    /\ geometry = DefaultModel
    /\ liberties = {}

\* configure: the ranges of the model, or the defaults when the answer to
\* MODELINFO does not arrive, and the whole paper as the scan area.  When
\* configure fails the object is deleted.
Configure ==
    /\ ~opened /\ opened' = TRUE
    /\ geometry' \in Models \cup {DefaultModel}
    /\ val' = [val EXCEPT !["tl_x"] = 0, !["tl_y"] = 0,
                          !["br_x"] = geometry'.width,
                          !["br_y"] = geometry'.height]
    /\ UNCHANGED <<settable, loaded, liberties>>

\* get_option_descriptor.  A frontend reads the descriptors in the order of
\* their index: a bound on the sets of loaded options.
GetOptionDescriptor(i) ==
    /\ opened
    /\ \A j \in 1 .. i - 1 : OptionList[j] \in loaded
    /\ loaded' = loaded \cup {OptionList[i]}
    /\ UNCHANGED <<opened, val, settable, geometry, liberties>>

\* set_hard_select and set_soft_select
Select(o, soft) == IF soft THEN settable \cup {o} ELSE settable \ {o}

FromFeeder(source) == source \in {"auto", "adf"}

\* Mutation: the flatbed takes duplex away and leaves the binding.
SwitchSource_KeepsBinding(source) ==
    settable' = IF FromFeeder(source)
                THEN (IF val["duplex"] THEN settable \cup {"duplex", "binding"}
                      ELSE (settable \cup {"duplex"}) \ {"binding"})
                ELSE settable \ {"duplex"}

\* What the set_value of an option does to the capabilities of others.
SwitchSource(source) ==
    settable' = IF FromFeeder(source)
                THEN (IF val["duplex"] THEN settable \cup {"duplex", "binding"}
                      ELSE (settable \cup {"duplex"}) \ {"binding"})
                ELSE settable \ {"duplex", "binding"}

SwitchDuplex(on) == settable' = Select("binding", on)

SwitchEdge(on) == settable' = Select("edgerange", on)

Switch(o, v) ==
    /\ o = "source" => SwitchSource(v)
    /\ o = "duplex" => SwitchDuplex(v)
    /\ o = "edge" => SwitchEdge(v)
    /\ o \notin {"source", "duplex", "edge"} => UNCHANGED settable

\* The tests of control_option.  No option is ever inactive.
CanControl(o) == opened /\ o \in loaded

\* control_option with SANE_ACTION_SET_VALUE.  Neither the capability nor the
\* constraint of the option is looked at.
SetValue(o, v) ==
    /\ CanControl(o)
    /\ val' = [val EXCEPT ![o] = v]
    /\ Switch(o, v)
    /\ liberties' = liberties \cup (IF o \in settable THEN {} ELSE {"hard"})
                    \cup (IF v \in Allowed(o) THEN {} ELSE {"value"})
    /\ UNCHANGED <<opened, loaded, geometry>>

\* Mutation: every list option takes the first string of the source list.
SetAuto_FirstSource(o) ==
    /\ CanControl(o)
    /\ val' = CASE o \in Switches -> [val EXCEPT ![o] = TRUE]
                [] o \in Choices -> [val EXCEPT ![o] = "auto"]
                [] OTHER -> val
    /\ liberties' = liberties \cup {"auto"}
    /\ UNCHANGED <<opened, settable, loaded, geometry>>

\* Mutation: set_auto switches the dependent options, which nobody is told.
SetAuto_Switches(o) ==
    /\ CanControl(o)
    /\ o \in Switches
    /\ val' = [val EXCEPT ![o] = TRUE]
    /\ Switch(o, TRUE)
    /\ liberties' = liberties \cup {"auto"}
    /\ UNCHANGED <<opened, loaded, geometry>>

\* control_option with SANE_ACTION_SET_AUTO: a switch is turned on, without
\* what its set_value does besides; the other options ignore it.
SetAuto(o) ==
    /\ CanControl(o)
    /\ val' = IF o \in Switches THEN [val EXCEPT ![o] = TRUE] ELSE val
    /\ liberties' = liberties \cup {"auto"}
    /\ UNCHANGED <<opened, settable, loaded, geometry>>

OptionsNext ==
    \/ Configure
    \/ \E i \in 1 .. Len(OptionList) : GetOptionDescriptor(i)
    \/ \E o \in Options : SetAuto(o)
    \/ \E o \in Options : \E v \in Offers[o] : SetValue(o, v)

OptionsSpec == OptionsInit /\ [][OptionsNext]_optionVars

-----------------------------------------------------------------------------
(* The SCAN request and the parameters                                     *)

\* Mutation: the sources are counted from one.
SourceCode_FromOne == CASE val["source"] = "auto" -> 1
                        [] val["source"] = "flatbed" -> 2
                        [] val["source"] = "adf" -> 3
                        [] OTHER -> -1

\* get_scan_source, get_scan_mode and get_option_bgelm: -1 for a string that
\* is in no list.
SourceCode == CASE val["source"] = "auto" -> 0
                [] val["source"] = "flatbed" -> 1
                [] val["source"] = "adf" -> 2
                [] OTHER -> -1
ModeCode == CASE val["mode"] = "color" -> 0
              [] val["mode"] = "gray" -> 1
              [] val["mode"] = "bw" -> 2
              [] OTHER -> -1
Levels == <<"0", "1", "2", "3", "4", "5", "6">>
LevelCode == IF \E n \in 0 .. 6 : Levels[n + 1] = val["bgelm"]
             THEN CHOOSE n \in 0 .. 6 : Levels[n + 1] = val["bgelm"]
             ELSE -1
DuplexCode == IF val["duplex"] THEN (IF val["binding"] = "top" THEN 2 ELSE 1)
              ELSE 0
EdgeCode == IF val["edge"] THEN val["edgerange"] ELSE 0

\* Mutation: the corners are taken as they come.
Area_AsGiven == [lt_x |-> val["tl_x"], lt_y |-> val["tl_y"],
                 width |-> val["br_x"] - val["tl_x"],
                 height |-> val["br_y"] - val["tl_y"]]

\* The scan area: the frontend may give its corners in any order.
Lower(a, b) == IF a > b THEN b ELSE a
Upper(a, b) == IF a > b THEN a ELSE b
Area == [lt_x |-> Lower(val["tl_x"], val["br_x"]),
         lt_y |-> Lower(val["tl_y"], val["br_y"]),
         width |-> Upper(val["tl_x"], val["br_x"]) - Lower(val["tl_x"], val["br_x"]),
         height |-> Upper(val["tl_y"], val["br_y"]) - Lower(val["tl_y"], val["br_y"])]

\* build_scanreq.  The codes go into bit fields: src of 3 bits, mode of 4, dup
\* of 2, bgelm of 3, edger of 7.  They are unsigned, so that the tests for a
\* negative src or mode never hold.
Request == [src |-> SourceCode % 8, mode |-> ModeCode % 16, dup |-> DuplexCode,
            bgelm |-> LevelCode % 8, edger |-> EdgeCode % 128,
            resolution |-> val["resolution"], area |-> Area]

\* mm2pixel: pixels of a length at a resolution, 25.4 mm to the inch.
MM2Pixel(dpi, mm) == (dpi * mm * 10) \div 254

\* update_sane_parameters
Parameters(mode, w, h) ==
    [format |-> IF mode = 0 THEN "RGB" ELSE "GRAY",
     depth |-> IF mode = 2 THEN 1 ELSE 8,
     pixels_per_line |-> w,
     bytes_per_line |-> CASE mode = 0 -> 3 * w
                          [] mode = 1 -> w
                          [] mode = 2 -> (w + 7) \div 8,
     lines |-> h]

Inval == [status |-> "SANE_STATUS_INVAL"]

\* Mutation: the right edge is taken for the width.
GetParameters_RightEdge ==
    LET w == MM2Pixel(val["resolution"], Upper(val["tl_x"], val["br_x"]))
    IN IF ModeCode < 0 THEN Inval ELSE Parameters(ModeCode, w, w)

\* get_parameters before a scan: the number of lines comes from the width, as
\* the number of pixels does.
GetParameters ==
    LET w == MM2Pixel(val["resolution"], Area.width)
    IN IF ModeCode < 0 THEN Inval ELSE Parameters(ModeCode, w, w)

-----------------------------------------------------------------------------
(* Properties                                                              *)

\* The variables have their types.
OptionsTypeOK ==
    /\ opened \in BOOLEAN
    /\ DOMAIN val = Options
    /\ \A o \in Options : val[o] \in Value(o)
    /\ settable \subseteq Options
    /\ loaded \subseteq Options
    /\ geometry \in Model
    /\ liberties \subseteq {"hard", "auto", "value"}

\* The capabilities that the frontend is shown follow the values they depend
\* on, through every order of switching the source, duplex and edge erase: the
\* three set_value methods each restore only a part of it.
\* Duplex can be set exactly when the source may be the feeder, and the
\* dependent options only under their switches, whatever the frontend does.
\* That they always can be set under them holds for a frontend that has no
\* switch set automatically, and, for the binding, sets only what is settable.
CapsFollow ==
    /\ "duplex" \in settable <=> FromFeeder(val["source"])
    /\ "binding" \in settable => val["duplex"]
    /\ "edgerange" \in settable => val["edge"]
    /\ "auto" \notin liberties => (val["edge"] => "edgerange" \in settable)
    /\ {"auto", "hard"} \cap liberties = {} =>
          ("binding" \in settable <=> val["duplex"] /\ FromFeeder(val["source"]))

\* What no switch speaks of can always be set.
OthersSettable == Options \ {"duplex", "binding", "edgerange"} \subseteq settable

\* For a frontend that respects the constraints the area asked of the daemon
\* lies on the paper, whichever corner it moved first and whatever model
\* answered.
AreaOnPaper ==
    opened /\ "value" \notin liberties =>
        /\ Area.lt_x >= 0 /\ Area.width >= 0
        /\ Area.lt_x + Area.width <= geometry.width
        /\ Area.lt_y >= 0 /\ Area.height >= 0
        /\ Area.lt_y + Area.height <= geometry.height

\* For such a frontend the bit fields of the request hold codes that exist and
\* a resolution of the device, unless it is the one the option starts with,
\* which configure leaves alone when the model's range excludes it.
RequestKnown ==
    opened /\ "value" \notin liberties =>
        /\ Request.src \in 0 .. 2 /\ Request.mode \in 0 .. 2
        /\ Request.bgelm \in 0 .. 6
        /\ Request.edger = EdgeCode
        /\ Request.resolution \in Allowed("resolution") \cup {50}

\* The parameters predicted before a scan describe the lines of the image
\* that the request asks for: get_parameters and build_scanreq each read the
\* corners and swap them on their own.
PredictionFits ==
    ModeCode >= 0 =>
        /\ GetParameters.pixels_per_line = MM2Pixel(Request.resolution, Request.area.width)
        /\ GetParameters.bytes_per_line * 8 >=
              GetParameters.pixels_per_line * GetParameters.depth
                  * (IF Request.mode = 0 THEN 3 ELSE 1)

\* The lines predicted are those of the scan area between its top and its
\* bottom, which the y options of the frontend set.
LinesPredicted ==
    ModeCode >= 0 =>
        GetParameters.lines = MM2Pixel(Request.resolution, Request.area.height)

\* A call that changes the capabilities of an option says RELOAD_OPTIONS: a
\* frontend that listens never shows a stale option.
ChangesAnnounced ==
    [][settable' # settable =>
          \E o \in Options : \E v \in Offers[o] :
              SetValue(o, v) /\ "RELOAD_OPTIONS" \in Info(o)]_optionVars

\* A call that changes what get_parameters answers says RELOAD_PARAMS.
ParamsAnnounced ==
    [][opened /\ GetParameters' # GetParameters =>
          \E o \in Options : \E v \in Offers[o] :
              SetValue(o, v) /\ "RELOAD_PARAMS" \in Info(o)]_optionVars

\* The request and the parameters that are told before it agree, and both are legal.
RequestFits == OptionsTypeOK /\ RequestKnown /\ PredictionFits

\* A frontend that listens to the info of its calls shows no stale option and no
\* stale parameters.
Announced == ChangesAnnounced /\ ParamsAnnounced
=============================================================================
