------------------------------ MODULE LibStatus ------------------------------
(***************************************************************************)
(* The status codes that cross the layers: the LibStatus values a daemon   *)
(* puts into an ERRORSTATUS indication and the SANE_Status values a        *)
(* frontend gets for them.                                                 *)
(***************************************************************************)

SaneStatus ==
    {"GOOD", "UNSUPPORTED", "CANCELLED", "DEVICE_BUSY", "INVAL", "EOF", "JAMMED",
     "NO_DOCS", "COVER_OPEN", "IO_ERROR", "NO_MEM", "ACCESS_DENIED"}

\* Failures inside the device, all reported as a device that is busy.
BusyStatus ==
    {"BUSY", "DEVICE_BUSY", "SYSTEM_BUSY", "CCD_CARRIAGE_LOCK", "HOME_POSITION_ERROR",
     "MEMORY_FULL", "RAM_TEST_FAILED", "CALIBRATION_TEST_FAILED", "DEVICE_INTERNAL_ERROR",
     "SENSOR_ERROR", "HOME_SENSOR_ERROR", "LAMP_ERROR", "FAN_ERROR",
     "MIRROR_CARRIAGE_ERROR", "DETECT_CD"}

\* DeviceBaseImpl::libsts2sanests: a code the table does not list is INVAL.
Libsts2sanests(s) ==
    CASE s = "SUCCESS" -> "GOOD"
      [] s = "CANCELED" -> "CANCELLED"
      [] s = "END_OF_PAGE" -> "EOF"
      [] s \in BusyStatus -> "DEVICE_BUSY"
      [] s \in {"IOERROR", "UNPLUGGED_ERROR", "COMMUNICATION_ERROR"} -> "IO_ERROR"
      [] s = "NOMEMORY" -> "NO_MEM"
      [] s \in {"ACCESS_REFUSED", "ACCESS_DENIED"} -> "ACCESS_DENIED"
      [] s = "ADF_NO_PAPER" -> "NO_DOCS"
      [] s = "ADF_PAPER_COVER_OPEN" -> "COVER_OPEN"
      [] s \in {"ADF_PAPER_JAMMED", "ADF_PAPER_FEED_ERROR"} -> "JAMMED"
      [] OTHER -> "INVAL"
=============================================================================
