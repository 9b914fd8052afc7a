------------------------------- MODULE MCBulk --------------------------------
(* Bulk batches on small instances; one cfg per question.                  *)
EXTENDS BulkBatch

=============================================================================
