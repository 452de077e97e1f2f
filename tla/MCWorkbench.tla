---------------------------- MODULE MCWorkbench ----------------------------
(* An instance of Workbench for TLC: the OCR read the first cell, and one    *)
(* note holds a line separator.                                             *)
EXTENDS Workbench

CONSTANTS i1, i2, t1, n1, n2

OcrOfFirst == [i \in Items |-> IF i = i1 THEN t1 ELSE None]
============================================================================
