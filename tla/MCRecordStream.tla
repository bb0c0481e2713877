--------------------------- MODULE MCRecordStream ---------------------------
(* A small instance of RecordStream: records of three bytes, with one datum  *)
(* that is accepted and one that is not.                                     *)
EXTENDS RecordStream

CONSTANTS stx, etx, a, b

MCBytes == {stx, etx, a, b}
MCRecords == {<<stx, a, etx>>}

=============================================================================
