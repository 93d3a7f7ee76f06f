------------------------------ MODULE MCRfuNI ------------------------------
EXTENDS RfuNI, TLC
\* One block that uses phase 0 twice; a block whose phase 0 runs through all
\* numbers, followed by one that is too long for the buffer.
MCOne  == <<3>>
MCWrap == <<7, 8>>
MCSymmetry == Permutations(Child)
=============================================================================
