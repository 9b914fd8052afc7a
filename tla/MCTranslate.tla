----------------------------- MODULE MCTranslate -----------------------------
EXTENDS Translation
CONSTANTS primary, spare, unsaved

ModelLists == {<<primary, spare>>, <<primary, unsaved>>, <<>>}
=============================================================================
