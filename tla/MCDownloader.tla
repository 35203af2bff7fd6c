---------------------------- MODULE MCDownloader ----------------------------
(* TLC instances of Downloader                                               *)
EXTENDS Downloader, TLC

=============================================================================
