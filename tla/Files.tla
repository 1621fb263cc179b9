-------------------------------- MODULE Files --------------------------------
(* What the models of file records, of publication times, of the files of     *)
(* datasets and of overlapping requests share: the files. Each keeps what it  *)
(* needs to know of them in variables of its own.                             *)
CONSTANTS
    File,   \* ids that records of files may get
    None    \* Python's None
=============================================================================
