--------------------------- MODULE MCVideoCapture ---------------------------
EXTENDS VideoCapture
=============================================================================
