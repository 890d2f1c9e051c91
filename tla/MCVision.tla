------------------------------- MODULE MCVision -------------------------------
EXTENDS Vision

\* Squared, kept whole, cut in two, in a grid, in narrow windows, and scaled.
McPictures == {<<1, 6>>, <<8, 8>>, <<8, 4>>, <<9, 8>>, <<9, 2>>, <<26, 10>>}

\* Longer than the main input, not very long for its width, and thinner than
\* a window: 800 x 300 in the program.
McThin == {<<9, 3>>}
=============================================================================
