------------------------------ MODULE MCViewer ------------------------------
EXTENDS Viewer
=============================================================================
